---- MODULE Spec2Model ----
(***************************************************************************)
(* A model of trakt-serializd-sync: the ledger (state.py SyncState), the   *)
(* activity model (models.py) and the reconciliation engine (sync.py       *)
(* SyncEngine), together with the two remote platforms the engine talks    *)
(* to.  Platform A is Trakt, platform B is Serializd.                      *)
(*                                                                         *)
(* Time is counted in ticks; TicksPerDay ticks make one calendar day, so   *)
(* two timestamps of the same day with a different time of day exist.      *)
(***************************************************************************)
EXTENDS Integers, Sequences, FiniteSets, Bags, TLC

\* ------------------------------------------------------------------ bounds
MaxPasses == 2
MaxEvents == 2
TicksPerDay == 2
MaxOps == 4
MaxSyncs == 2

\* ------------------------------------------------------- values and None
\* Python's None for a timestamp (state.py _default_state).
NoTime == -1
\* Serializd encodes "no rating" as 0 (models.py SerializdDiaryEntry.rating);
\* the same 0 stands for WatchActivity.rating = None.
NoRating == 0
\* SerializdDiaryEntry.backdate: datetime | None
NoBackdate == -1

Shows == {1}
Seasons == {1, 2}
Episodes == {1}
\* the ratings the users give by hand (the scale is 1..10)
TraktUserRatings == {8}
SerializdUserRatings == {6, 8}

\* what the users can have watched: <<show, season, episode, time>>
Watchable == {<<1, 1, 1, 0>>, <<1, 1, 1, 1>>, <<1, 1, 1, 2>>, <<1, 2, 1, 0>>}

Directions == {"both", "trakt-to-serializd", "serializd-to-trakt"}
Strategies == {"trakt-wins", "serializd-wins", "newest-wins"}
\* permanent reasons the season availability check can give
Reasons == {"season_not_found", "season_empty"}

EpisodeIds == Shows \X Seasons \X Episodes

\* ---------------------------------------------------------- pure helpers
Max(S) == CHOOSE x \in S : \A y \in S : y <= x

Range(s) == {s[i] : i \in 1..Len(s)}

\* strftime("%Y-%m-%d"): the calendar day of a timestamp
DateStr(t) == t \div TicksPerDay

\* str(n) of a natural number, one character per element
DigitChars == <<"0", "1", "2", "3", "4", "5", "6", "7", "8", "9">>
RECURSIVE Str(_)
Str(n) ==
    IF n < 10 THEN <<DigitChars[n + 1]>>
    ELSE Str(n \div 10) \o <<DigitChars[(n % 10) + 1]>>

\* WatchActivity.key: f"{tmdb_show_id}:{season_number}:{episode_number}:{date_str}"
KeyByTimestamp(a) ==
    Str(a.tmdb_show_id) \o <<":">> \o Str(a.season_number) \o <<":">>
       \o Str(a.episode_number) \o <<":">> \o Str(a.watched_at)
Key(a) ==
    Str(a.tmdb_show_id) \o <<":">> \o Str(a.season_number) \o <<":">>
       \o Str(a.episode_number) \o <<":">> \o Str(DateStr(a.watched_at))

\* WatchActivity.__eq__ and WatchActivity.__hash__ (the hash of the key)
ActivityEq(a, b) == Key(a) = Key(b)
ActivityHash(a) == Key(a)

\* A set ordered newest first by the timestamp field f gives (the order the
\* remote endpoints return their entries in).
RECURSIVE NewestFirst(_, _)
NewestFirst(S, f) ==
    IF S = {} THEN <<>>
    ELSE LET top == CHOOSE e \in S : \A o \in S : f[o] <= f[e]
         IN  <<top>> \o NewestFirst(S \ {top}, f)

\* TraktHistoryEntry.to_activity (rating is joined afterwards)
TraktToActivity(h) ==
    [tmdb_show_id |-> h.show, season_number |-> h.season,
     episode_number |-> h.episode, watched_at |-> h.watched_at,
     is_rewatch |-> FALSE, rating |-> NoRating, source |-> "trakt"]

\* SerializdDiaryEntry.to_activity
SerializdToActivity(e) ==
    [tmdb_show_id |-> e.show, season_number |-> e.season,
     episode_number |-> e.episode,
     watched_at |-> IF e.backdate # NoBackdate THEN e.backdate ELSE e.date_added,
     is_rewatch |-> e.is_rewatch,
     rating |-> IF e.rating > 0 THEN e.rating ELSE NoRating,
     source |-> "serializd"]

\* SerializdDiaryEntryRequest.from_activity, as the entry the platform then
\* holds: backdate is the watched timestamp, rating None becomes 0.
DiaryEntryFromActivity(a, stamp) ==
    [show |-> a.tmdb_show_id, season |-> a.season_number,
     episode |-> a.episode_number, date_added |-> stamp,
     backdate |-> a.watched_at, is_rewatch |-> a.is_rewatch,
     rating |-> IF a.rating # NoRating THEN a.rating ELSE 0]

\* --------------------------------------------------------------- ledger
\* SyncState._default_state
DefaultState ==
    [last_sync |-> FALSE,
     trakt_last_fetched |-> FALSE,
     trakt_last_watched |-> NoTime,
     serializd_last_fetched |-> FALSE,
     serializd_last_diary |-> NoTime,
     synced_activities |-> EmptyBag,
     excluded_activities |-> <<>>,
     stats |-> [total_syncs |-> 0, trakt_to_serializd |-> 0,
                serializd_to_trakt |-> 0, conflicts_resolved |-> 0,
                errors |-> 0, excluded |-> 0]]

\* the keys of the synced list / of the excluded map
SyncedKeys(st) == BagToSet(st.synced_activities)
ExcludedKeys(st) == DOMAIN st.excluded_activities

\* SyncState.is_synced
IsSyncedOnlySynced(st, a) == Key(a) \in SyncedKeys(st)
IsSynced(st, a) ==
    \/ Key(a) \in SyncedKeys(st)
    \/ Key(a) \in ExcludedKeys(st)

\* SyncState.is_excluded
IsExcluded(st, a) == Key(a) \in ExcludedKeys(st)

\* SyncState.mark_synced: append the key unless the list holds it
MarkSyncedAppends(st, a) ==
    [st EXCEPT !.synced_activities = @ (+) SetToBag({Key(a)})]
MarkSynced(st, a) ==
    IF Key(a) \in SyncedKeys(st) THEN st
    ELSE [st EXCEPT !.synced_activities = @ (+) SetToBag({Key(a)})]

\* SyncState.mark_synced_batch: list(set(old) | keys)
MarkSyncedBatch(st, as) ==
    [st EXCEPT !.synced_activities =
        SetToBag(BagToSet(@) \cup {Key(as[i]) : i \in 1..Len(as)})]

\* SyncState.increment_stat
IncrementStat(st, stat, amount) ==
    [st EXCEPT !.stats[stat] = @ + amount]

\* SyncState.exclude_activity
ExcludeActivityAgain(st, a, reason) ==
    IncrementStat(
       [st EXCEPT !.excluded_activities =
           [k \in DOMAIN @ \cup {Key(a)} |->
               IF k = Key(a) THEN reason ELSE @[k]]],
       "excluded", 1)
ExcludeActivity(st, a, reason) ==
    IF Key(a) \in ExcludedKeys(st) THEN st
    ELSE IncrementStat(
            [st EXCEPT !.excluded_activities =
                [k \in DOMAIN @ \cup {Key(a)} |->
                    IF k = Key(a) THEN reason ELSE @[k]]],
            "excluded", 1)

\* SyncState.exclude_activities_batch
RECURSIVE ExcludeActivitiesBatch(_, _, _)
ExcludeActivitiesBatch(st, as, reason) ==
    IF as = <<>> THEN st
    ELSE ExcludeActivitiesBatch(ExcludeActivity(st, Head(as), reason),
                                Tail(as), reason)

\* SyncState.clear_exclusions
ClearExclusionsAndSynced(st) ==
    [st EXCEPT !.excluded_activities = <<>>, !.synced_activities = EmptyBag]
ClearExclusions(st) == [st EXCEPT !.excluded_activities = <<>>]

\* SyncState.record_sync
RecordSyncOverwrites(st, t2s, s2t, conflicts, errors) ==
    [st EXCEPT !.stats.total_syncs = @ + 1,
               !.stats.trakt_to_serializd = t2s,
               !.stats.serializd_to_trakt = s2t,
               !.stats.conflicts_resolved = conflicts,
               !.stats.errors = @ + errors]
RecordSync(st, t2s, s2t, conflicts, errors) ==
    IncrementStat(
      IncrementStat(
        IncrementStat(
          IncrementStat(
            IncrementStat(st, "total_syncs", 1),
            "trakt_to_serializd", t2s),
          "serializd_to_trakt", s2t),
        "conflicts_resolved", conflicts),
      "errors", errors)

\* SyncState.save: stamps last_sync and writes the document
Saved(st) == [st EXCEPT !.last_sync = TRUE]

\* SyncState.synced_count, SyncState.excluded_count
SyncedCount(st) == BagCardinality(st.synced_activities)
ExcludedCount(st) == Cardinality(ExcludedKeys(st))

\* sync_state.json as _load_state can find it: absent; text that is not
\* JSON; JSON that is not an object (null, a list); bytes that are not
\* text; or a document, which may lack some of its fields
MissingFile == [kind |-> "missing"]
UnparsableFile == [kind |-> "unparsable"]
NotAnObjectFile == [kind |-> "not_object"]
UndecodableFile == [kind |-> "undecodable"]
Document(doc, lacking) == [kind |-> "doc", doc |-> doc, lacking |-> lacking]

\* the top-level fields of the document
DocumentFields ==
    {"last_sync", "trakt", "serializd", "synced_activities",
     "excluded_activities", "stats"}

\* a watermark as the document holds it: null, or the isoformat() text the
\* setter stored, which fromisoformat() reads back
JsonNull == <<>>
IsoFormat(t) == IF t = NoTime THEN JsonNull ELSE <<"iso", t>>
FromIsoFormat(ts) == IF ts = JsonNull THEN NoTime ELSE ts[2]

\* json.dumps(self._state): the document of a ledger, nested as
\* _default_state nests it
ToDocument(st) ==
    [last_sync |-> st.last_sync,
     trakt |-> [last_fetched_at |-> st.trakt_last_fetched,
                last_watched_at |-> IsoFormat(st.trakt_last_watched)],
     serializd |-> [last_fetched_at |-> st.serializd_last_fetched,
                    last_diary_at |-> IsoFormat(st.serializd_last_diary)],
     synced_activities |-> st.synced_activities,
     excluded_activities |-> st.excluded_activities,
     stats |-> st.stats]

\* what the accessors of SyncState read from a document that lacks some
\* fields: every .get and .setdefault falls back to the empty value
ReadWithDefaults(doc, lacking) ==
    [last_sync |->
        IF "last_sync" \in lacking THEN DefaultState.last_sync ELSE doc.last_sync,
     trakt_last_fetched |->
        IF "trakt" \in lacking THEN DefaultState.trakt_last_fetched
        ELSE doc.trakt.last_fetched_at,
     trakt_last_watched |->
        IF "trakt" \in lacking THEN NoTime
        ELSE FromIsoFormat(doc.trakt.last_watched_at),
     serializd_last_fetched |->
        IF "serializd" \in lacking THEN DefaultState.serializd_last_fetched
        ELSE doc.serializd.last_fetched_at,
     serializd_last_diary |->
        IF "serializd" \in lacking THEN NoTime
        ELSE FromIsoFormat(doc.serializd.last_diary_at),
     synced_activities |->
        IF "synced_activities" \in lacking THEN DefaultState.synced_activities
        ELSE doc.synced_activities,
     excluded_activities |->
        IF "excluded_activities" \in lacking THEN DefaultState.excluded_activities
        ELSE doc.excluded_activities,
     stats |->
        IF "stats" \in lacking THEN DefaultState.stats ELSE doc.stats]

\* SyncState.__init__ / _load_state: the ledger a new SyncState holds and the
\* exception the file makes it raise ("" for none).  read_text() raises on
\* bytes that are not text and nothing catches it; a JSON value that is not
\* an object is kept as _state, and every later accessor raises on it.
LoadFileAlwaysDefault(f) == [st |-> DefaultState, fault |-> ""]
LoadFile(f) ==
    IF f.kind = "doc"
    THEN [st |-> ReadWithDefaults(f.doc, f.lacking), fault |-> ""]
    ELSE IF f.kind = "undecodable"
    THEN [st |-> DefaultState, fault |-> "UnicodeDecodeError"]
    ELSE IF f.kind = "not_object"
    THEN [st |-> DefaultState, fault |-> "AttributeError"]
    ELSE [st |-> DefaultState, fault |-> ""]

\* SyncState.save, as the file it leaves
SavedFile(st) == Document(ToDocument(Saved(st)), {})

\* SyncState._load_state of the file save() left for the ledger st
LoadState(st) == LoadFile(Document(ToDocument(st), {})).st

\* -------------------------------------------------------- engine, pure
\* keys of a list of activities
KeySet(as) == {Key(as[i]) : i \in 1..Len(as)}

\* {a.key: a for a in activities}: a key keeps the place of its first
\* occurrence and the value of its last one.
MapGet(as, k) == as[Max({i \in 1..Len(as) : Key(as[i]) = k})]

RECURSIVE MapKeys(_)
MapKeys(as) ==
    IF as = <<>> THEN <<>>
    ELSE LET rest == MapKeys(SubSeq(as, 1, Len(as) - 1))
             k == Key(as[Len(as)])
         IN  IF k \in Range(rest) THEN rest ELSE Append(rest, k)

\* the values of the map in iteration order
MapValues(as) ==
    LET keys == MapKeys(as)
    IN  [i \in 1..Len(keys) |-> MapGet(as, keys[i])]

\* sync(): the loop that finds the activities of one platform that the
\* other one lacks and the ledger has not handled
DiffIgnoringExclusions(mine, theirs, st) ==
    SelectSeq(MapValues(mine),
              LAMBDA a : Key(a) \notin KeySet(theirs) /\ ~IsSyncedOnlySynced(st, a))
Diff(mine, theirs, st) ==
    SelectSeq(MapValues(mine),
              LAMBDA a : Key(a) \notin KeySet(theirs) /\ ~IsSynced(st, a))

\* all orders a Python set of keys can be iterated in
Orderings(S) == {s \in [1..Cardinality(S) -> S] : Range(s) = S}

\* SyncEngine._detect_conflicts, iterating the common keys in `order`
DetectConflictsAnyDifference(ta, sa, order) ==
    SelectSeq([i \in 1..Len(order) |-> <<MapGet(ta, order[i]), MapGet(sa, order[i])>>],
              LAMBDA p : p[1].rating # p[2].rating)
DetectConflicts(ta, sa, order) ==
    SelectSeq([i \in 1..Len(order) |-> <<MapGet(ta, order[i]), MapGet(sa, order[i])>>],
              LAMBDA p : /\ p[1].rating # p[2].rating
                         /\ p[1].rating # NoRating
                         /\ p[2].rating # NoRating)

\* SyncEngine._resolve_conflicts: which side of one conflict is pushed
TraktSideWinsStrictlyNewer(strategy, p) ==
    \/ strategy = "trakt-wins"
    \/ strategy = "newest-wins" /\ p[1].watched_at > p[2].watched_at
TraktSideWinsAlways(strategy, p) == TRUE
TraktSideWins(strategy, p) ==
    \/ strategy = "trakt-wins"
    \/ strategy = "newest-wins" /\ p[1].watched_at >= p[2].watched_at

\* SyncEngine._resolve_conflicts: (to Serializd, to Trakt)
ResolveConflicts(cs, strategy) ==
    LET toS == SelectSeq(cs, LAMBDA p : TraktSideWins(strategy, p))
        toT == SelectSeq(cs, LAMBDA p : ~TraktSideWins(strategy, p))
    IN  <<[i \in 1..Len(toS) |-> toS[i][1]], [i \in 1..Len(toT) |-> toT[i][2]]>>


\* ------------------------------------------------- the remote platforms
\* Trakt GET /users/{name}/history/episodes with start_at = since: the
\* entries not older than since, newest first (all pages)
GetEpisodeHistory(history, since) ==
    NewestFirst({h \in history : since = NoTime \/ h.watched_at >= since},
                [h \in history |-> h.watched_at])

\* SerializdClient.get_diary_entries: the pages are read newest first and
\* reading stops at the first entry added before since
RECURSIVE TakeUntilOlder(_, _)
TakeUntilOlder(entries, since) ==
    IF entries = <<>> THEN <<>>
    ELSE IF since # NoTime /\ Head(entries).date_added < since THEN <<>>
    ELSE <<Head(entries)>> \o TakeUntilOlder(Tail(entries), since)

GetDiaryEntries(diary, since) ==
    TakeUntilOlder(NewestFirst(diary, [e \in diary |-> e.date_added]), since)

\* the timestamp Serializd gives the next entry it stores (dateAdded)
NextStamp(diary) ==
    IF diary = {} THEN 0 ELSE Max({e.date_added : e \in diary}) + 1

\* what the season availability check can answer
Available == [is_available |-> TRUE, exclusion_reason |-> ""]
Transient == [is_available |-> FALSE, exclusion_reason |-> ""]
Permanent(reason) == [is_available |-> FALSE, exclusion_reason |-> reason]
AvailabilityAnswers == {Available, Transient} \cup {Permanent(r) : r \in Reasons}

\* what add_diary_entry can do: return True, return False, raise
WriteOutcomes == {"ok", "rejected", "raised"}
\* what add_rating can do
RateOutcomes == {"ok", "rejected", "raised"}

\* --------------------------------------------- engine, apply to Serializd
\* the (show, season) of an activity
SeasonOf(a) == <<a.tmdb_show_id, a.season_number>>

\* the keys of by_season in insertion order
RECURSIVE SeasonKeys(_)
SeasonKeys(as) ==
    IF as = <<>> THEN <<>>
    ELSE LET rest == SeasonKeys(SubSeq(as, 1, Len(as) - 1))
             g == SeasonOf(as[Len(as)])
         IN  IF g \in Range(rest) THEN rest ELSE Append(rest, g)

\* _sync_to_serializd, the loop over the episodes of an available season.
\* acc = [st, diary, synced, writes, checks, skipped, calls]
RECURSIVE SyncEpisodesStopsAtFailure(_, _, _)
SyncEpisodesStopsAtFailure(acc, as, wr) ==
    IF as = <<>> THEN acc
    ELSE LET a == Head(as)
             wrote == [acc EXCEPT
                         !.writes = Append(@, a),
                         !.calls = Append(@, [call |-> "add_diary_entry",
                                              activity |-> a,
                                              outcome |-> wr[a]])]
         IN  IF wr[a] = "ok"
             THEN SyncEpisodesStopsAtFailure(
                     [wrote EXCEPT
                        !.diary = @ \cup {DiaryEntryFromActivity(a, NextStamp(@))},
                        !.st = MarkSynced(@, a),
                        !.synced = @ + 1],
                     Tail(as), wr)
             ELSE [wrote EXCEPT !.st = MarkSynced(@, a)]
RECURSIVE SyncEpisodes(_, _, _)
SyncEpisodes(acc, as, wr) ==
    IF as = <<>> THEN acc
    ELSE LET a == Head(as)
             wrote == [acc EXCEPT
                         !.writes = Append(@, a),
                         !.calls = Append(@, [call |-> "add_diary_entry",
                                              activity |-> a,
                                              outcome |-> wr[a]])]
             next ==
               IF wr[a] = "ok"
               THEN [wrote EXCEPT
                        !.diary = @ \cup {DiaryEntryFromActivity(a, NextStamp(@))},
                        !.st = MarkSynced(@, a),
                        !.synced = @ + 1]
               ELSE [wrote EXCEPT !.st = MarkSynced(@, a)]
         IN  SyncEpisodes(next, Tail(as), wr)

\* _sync_to_serializd, the loop over by_season
RECURSIVE SyncSeasonsStopsAtTransient(_, _, _, _, _)
SyncSeasonsStopsAtTransient(acc, groups, as, avail, wr) ==
    IF groups = <<>> THEN acc
    ELSE LET g == Head(groups)
             season_activities == SelectSeq(as, LAMBDA a : SeasonOf(a) = g)
             checked == [acc EXCEPT
                           !.checks = Append(@, g),
                           !.calls = Append(@, [call |-> "check_season_availability",
                                                season |-> g,
                                                answer |-> avail[g]])]
         IN  IF ~avail[g].is_available /\ avail[g].exclusion_reason # ""
             THEN SyncSeasonsStopsAtTransient(
                     [checked EXCEPT !.st =
                        ExcludeActivitiesBatch(@, season_activities,
                                               avail[g].exclusion_reason)],
                     Tail(groups), as, avail, wr)
             ELSE IF ~avail[g].is_available
             THEN [checked EXCEPT !.skipped = @ \o season_activities]
             ELSE SyncSeasonsStopsAtTransient(
                     SyncEpisodes(checked, season_activities, wr),
                     Tail(groups), as, avail, wr)
RECURSIVE SyncSeasons(_, _, _, _, _)
SyncSeasons(acc, groups, as, avail, wr) ==
    IF groups = <<>> THEN acc
    ELSE LET g == Head(groups)
             season_activities == SelectSeq(as, LAMBDA a : SeasonOf(a) = g)
             checked == [acc EXCEPT
                           !.checks = Append(@, g),
                           !.calls = Append(@, [call |-> "check_season_availability",
                                                season |-> g,
                                                answer |-> avail[g]])]
             next ==
               IF ~avail[g].is_available /\ avail[g].exclusion_reason # ""
               THEN [checked EXCEPT !.st =
                        ExcludeActivitiesBatch(@, season_activities,
                                               avail[g].exclusion_reason)]
               ELSE IF ~avail[g].is_available
               THEN [checked EXCEPT !.skipped = @ \o season_activities]
               ELSE SyncEpisodes(checked, season_activities, wr)
         IN  SyncSeasons(next, Tail(groups), as, avail, wr)

SyncToSerializdIgnoresDryRun(st, diary, as, dry, avail, wr) ==
    SyncSeasons([st |-> st, diary |-> diary, synced |-> 0,
                 writes |-> <<>>, checks |-> <<>>, skipped |-> <<>>,
                 calls |-> <<>>],
                SeasonKeys(as), as, avail, wr)
\* SyncEngine._sync_to_serializd
SyncToSerializd(st, diary, as, dry, avail, wr) ==
    LET acc0 == [st |-> st, diary |-> diary, synced |-> 0,
                 writes |-> <<>>, checks |-> <<>>, skipped |-> <<>>,
                 calls |-> <<>>]
    IN  IF dry THEN acc0
        ELSE SyncSeasons(acc0, SeasonKeys(as), as, avail, wr)

\* ------------------------------------------------- engine, apply to Trakt
\* the history entry Trakt stores for an activity of add_to_history
HistoryEntryFromActivity(a) ==
    [show |-> a.tmdb_show_id, season |-> a.season_number,
     episode |-> a.episode_number, watched_at |-> a.watched_at]

\* _sync_to_trakt, the loop that pushes the ratings.
\* acc = [ratings, pushes, calls]
RECURSIVE SyncRatingsStopsAtFailure(_, _, _)
SyncRatingsStopsAtFailure(acc, as, rate) ==
    IF as = <<>> THEN acc
    ELSE LET a == Head(as)
             id == <<a.tmdb_show_id, a.season_number, a.episode_number>>
             pushed == [pushes |-> Append(acc.pushes, a),
                        ratings |-> IF rate[a] = "ok"
                                    THEN [acc.ratings EXCEPT ![id] = a.rating]
                                    ELSE acc.ratings,
                        calls |-> Append(acc.calls, [call |-> "add_rating",
                                                     activity |-> a,
                                                     outcome |-> rate[a]])]
         IN  IF a.rating = NoRating
             THEN SyncRatingsStopsAtFailure(acc, Tail(as), rate)
             ELSE IF rate[a] = "ok"
             THEN SyncRatingsStopsAtFailure(pushed, Tail(as), rate)
             ELSE pushed
RECURSIVE SyncRatings(_, _, _)
SyncRatings(acc, as, rate) ==
    IF as = <<>> THEN acc
    ELSE LET a == Head(as)
             id == <<a.tmdb_show_id, a.season_number, a.episode_number>>
             next ==
               IF a.rating = NoRating THEN acc
               ELSE [pushes |-> Append(acc.pushes, a),
                     ratings |-> IF rate[a] = "ok"
                                 THEN [acc.ratings EXCEPT ![id] = a.rating]
                                 ELSE acc.ratings,
                     calls |-> Append(acc.calls, [call |-> "add_rating",
                                                  activity |-> a,
                                                  outcome |-> rate[a]])]
         IN  SyncRatings(next, Tail(as), rate)

SyncToTraktKeepsFailedPending(st, history, ratings, as, dry, out) ==
    LET none == [st |-> st, history |-> history, ratings |-> ratings,
                 added |-> 0, writes |-> <<>>, rating_pushes |-> <<>>,
                 calls |-> <<>>]
        bulk(outcome, nf) == [call |-> "add_to_history", activities |-> as,
                              outcome |-> outcome, not_found |-> nf]
    IN  IF dry \/ as = <<>> THEN none
        ELSE IF out.raised
        THEN [none EXCEPT !.writes = as, !.calls = <<bulk("raised", {})>>]
        ELSE LET found == SelectSeq(as, LAMBDA a : a \notin out.not_found)
                 rated == SyncRatings([ratings |-> ratings, pushes |-> <<>>,
                                       calls |-> <<bulk("ok", out.not_found)>>],
                                      as, out.rate)
             IN  [st |-> MarkSyncedBatch(st, as),
                  history |-> history \cup
                      {HistoryEntryFromActivity(found[i]) : i \in 1..Len(found)},
                  ratings |-> rated.ratings,
                  added |-> Len(found),
                  writes |-> as,
                  rating_pushes |-> rated.pushes,
                  calls |-> rated.calls]
\* SyncEngine._sync_to_trakt.  out = [raised, not_found, rate]
SyncToTrakt(st, history, ratings, as, dry, out) ==
    LET none == [st |-> st, history |-> history, ratings |-> ratings,
                 added |-> 0, writes |-> <<>>, rating_pushes |-> <<>>,
                 calls |-> <<>>]
        bulk(outcome, nf) == [call |-> "add_to_history", activities |-> as,
                              outcome |-> outcome, not_found |-> nf]
    IN  IF dry \/ as = <<>> THEN none
        ELSE IF out.raised
        THEN [none EXCEPT !.st = MarkSyncedBatch(st, as), !.writes = as,
                          !.calls = <<bulk("raised", {})>>]
        ELSE LET found == SelectSeq(as, LAMBDA a : a \notin out.not_found)
                 rated == SyncRatings([ratings |-> ratings, pushes |-> <<>>,
                                       calls |-> <<bulk("ok", out.not_found)>>],
                                      as, out.rate)
             IN  [st |-> MarkSyncedBatch(st, as),
                  history |-> history \cup
                      {HistoryEntryFromActivity(found[i]) : i \in 1..Len(found)},
                  ratings |-> rated.ratings,
                  added |-> Len(found),
                  writes |-> as,
                  rating_pushes |-> rated.pushes,
                  calls |-> rated.calls]


\* ---------------------------------------------------------------- state
VARIABLES
    traktHistory,      \* Trakt: the user's episode history entries
    traktRatings,      \* Trakt: the user's episode ratings (0 = not rated)
    serializdDiary,    \* Serializd: the user's diary entries
    state,             \* SyncState._state, the ledger in memory
    disk,              \* sync_state.json, the ledger as last saved
    pc,                \* where sync() stands
    direction,         \* sync(direction)
    conflict_strategy, \* SyncEngine.conflict_strategy
    dry_run,           \* SyncEngine.dry_run
    trakt_activities,  \* sync(): result of _fetch_trakt_activities
    serializd_activities,
    to_serializd,      \* sync(): activities scheduled for Serializd
    to_trakt,          \* sync(): activities scheduled for Trakt
    conflicts,         \* sync(): result of _detect_conflicts
    results,           \* sync(): the result dict
    start,             \* the ledger as it was when the pass at hand started
    checks,            \* seasons whose availability this pass has asked for
    diaryWrites,       \* activities this pass has called add_diary_entry with
    historyWrites,     \* activities this pass has sent to add_to_history
    ratingWrites,      \* activities this pass has called add_rating for
    transientSkips,    \* activities this pass has skipped, season unavailable
    remoteCalls,       \* the remote calls of this pass's apply phase, in order
    prev,              \* how the last pass ended, if nothing happened since
    passes,            \* passes finished so far
    events,            \* user and operator actions so far
    file,              \* sync_state.json as a caller of SyncState finds it
    fault,             \* the exception the last SyncState call raised, or ""
    op,                \* the last SyncState call: its name and arguments
    before,            \* SyncState._state as it was before that call
    ops,               \* SyncState calls made so far
    pair,              \* two WatchActivity objects at hand
    compared,          \* what comparing the two gave
    max_retries,       \* retry_with_backoff(max_retries=...)
    max_delay,         \* retry_with_backoff(max_delay=...)
    attempt,           \* wrapper: the loop variable
    last_exception,    \* wrapper: last_exception
    trace,             \* what the wrapper has done: calls of func and sleeps
    outcome,           \* how the call of the wrapper stands or ended
    cli_pc,            \* where the sync command stands
    tokens,            \* what load_saved_token() gives for each platform
    options,           \* the options the sync command was given
    run,               \* how the last engine.sync() of run_sync ended
    syncs,             \* calls of run_sync so far
    stderr,            \* what the command has echoed to stderr
    exit_code          \* the exit status of the process

vars == <<traktHistory, traktRatings, serializdDiary, state, disk, pc,
          direction, conflict_strategy, dry_run, trakt_activities,
          serializd_activities, to_serializd, to_trakt, conflicts, results,
          start, checks, diaryWrites, historyWrites, ratingWrites,
          transientSkips, remoteCalls, prev, passes, events,
          file, fault, op, before, ops, pair, compared,
          max_retries, max_delay, attempt, last_exception, trace, outcome,
          cli_pc, tokens, options, run, syncs, stderr, exit_code>>

\* the variables of the engine
engine == <<traktHistory, traktRatings, serializdDiary, pc, direction,
            conflict_strategy, dry_run, trakt_activities,
            serializd_activities, to_serializd, to_trakt, conflicts, results,
            start, checks, diaryWrites, historyWrites, ratingWrites,
            transientSkips, remoteCalls, prev, passes, events>>

\* the variables the engine does not touch: those of a caller that drives
\* SyncState on its own
caller == <<file, fault, op, before, ops>>
\* those of a comparison of two activities
compare == <<pair, compared>>
\* those of one call of a function wrapped by retry_with_backoff
retry == <<max_retries, max_delay, attempt, last_exception, trace, outcome>>
\* those of one invocation of the sync command
command == <<cli_pc, tokens, options, run, syncs, stderr, exit_code>>
side == <<caller, compare, retry, command>>

remote == <<traktHistory, traktRatings, serializdDiary>>
ledger == <<state, disk>>
config == <<direction, conflict_strategy, dry_run>>
locals == <<trakt_activities, serializd_activities, to_serializd, to_trakt,
            conflicts, results>>
effects == <<checks, diaryWrites, historyWrites, ratingWrites, transientSkips,
             remoteCalls>>

\* no two activities are at hand; nothing has been compared
NoPair == <<>>
NotCompared == [done |-> FALSE]

\* wrapper: last_exception = None; the wrapper has not been called
NoException == [class |-> "None"]
NotCalled == [kind |-> "not_called"]

\* no pass has ended since the platforms or the ledger were last touched
NoPrev == [outcome |-> "none"]

\* sync(): the result dict as first built
EmptyResults ==
    [trakt_to_serializd |-> 0, serializd_to_trakt |-> 0, conflicts |-> 0,
     errors |-> 0, excluded |-> 0]

Init ==
    /\ traktHistory = {}
    /\ traktRatings = [id \in EpisodeIds |-> NoRating]
    /\ serializdDiary = {}
    /\ state = DefaultState
    /\ disk = DefaultState
    /\ pc = "idle"
    /\ direction = "both"
    /\ conflict_strategy = "trakt-wins"
    /\ dry_run = FALSE
    /\ trakt_activities = <<>>
    /\ serializd_activities = <<>>
    /\ to_serializd = <<>>
    /\ to_trakt = <<>>
    /\ conflicts = <<>>
    /\ results = EmptyResults
    /\ start = DefaultState
    /\ checks = <<>>
    /\ diaryWrites = <<>>
    /\ historyWrites = <<>>
    /\ ratingWrites = <<>>
    /\ transientSkips = <<>>
    /\ remoteCalls = <<>>
    /\ prev = NoPrev
    /\ passes = 0
    /\ events = 0
    /\ file = MissingFile
    /\ fault = ""
    /\ op = [name |-> "__init__", args |-> <<>>, raised |-> FALSE]
    /\ before = DefaultState
    /\ ops = 0
    /\ pair = NoPair
    /\ compared = NotCompared
    /\ max_retries = 3
    /\ max_delay = 60
    /\ attempt = 0
    /\ last_exception = NoException
    /\ trace = <<>>
    /\ outcome = NotCalled
    /\ cli_pc = "not_invoked"
    /\ tokens = [trakt |-> FALSE, serializd |-> FALSE]
    /\ options = [direction |-> "both", conflict_strategy |-> "trakt-wins",
                  dry_run |-> FALSE, watch |-> FALSE]
    /\ run = "none"
    /\ syncs = 0
    /\ stderr = <<>>
    /\ exit_code = 0

\* ------------------------------------------------ the users of the platforms
\* the user marks an episode watched on Trakt, and may rate it
UserWatchesOnTrakt ==
    /\ UNCHANGED side
    /\ pc = "idle" /\ events < MaxEvents
    /\ \E w \in Watchable, r \in TraktUserRatings \cup {NoRating} :
         LET h == [show |-> w[1], season |-> w[2], episode |-> w[3],
                   watched_at |-> w[4]]
             id == <<w[1], w[2], w[3]>>
         IN  /\ h \notin traktHistory
             /\ traktHistory' = traktHistory \cup {h}
             /\ traktRatings' = IF r # NoRating
                                THEN [traktRatings EXCEPT ![id] = r]
                                ELSE traktRatings
    /\ prev' = NoPrev
    /\ events' = events + 1
    /\ UNCHANGED <<serializdDiary, ledger, pc, config, locals,
                   start, effects, passes>>

\* the user rates an episode on Trakt
UserRatesOnTrakt ==
    /\ UNCHANGED side
    /\ pc = "idle" /\ events < MaxEvents
    /\ \E id \in EpisodeIds, r \in TraktUserRatings :
         /\ traktRatings[id] # r
         /\ traktRatings' = [traktRatings EXCEPT ![id] = r]
    /\ prev' = NoPrev
    /\ events' = events + 1
    /\ UNCHANGED <<traktHistory, serializdDiary, ledger, pc, config, locals,
                   start, effects, passes>>

\* the user logs an episode in the Serializd diary, backdated to the time
\* of watching, with or without a rating
UserLogsOnSerializd ==
    /\ UNCHANGED side
    /\ pc = "idle" /\ events < MaxEvents
    /\ \E w \in Watchable, r \in SerializdUserRatings \cup {0} :
         serializdDiary' = serializdDiary \cup
            {[show |-> w[1], season |-> w[2], episode |-> w[3],
              date_added |-> NextStamp(serializdDiary), backdate |-> w[4],
              is_rewatch |-> FALSE, rating |-> r]}
    /\ prev' = NoPrev
    /\ events' = events + 1
    /\ UNCHANGED <<traktHistory, traktRatings, ledger, pc, config, locals,
                   start, effects, passes>>

\* cli reset-state --exclusions-only: clear_exclusions() and save()
ResetExclusions ==
    /\ UNCHANGED side
    /\ pc = "idle" /\ events < MaxEvents
    /\ ExcludedKeys(LoadState(disk)) # {}
    /\ state' = Saved(ClearExclusions(LoadState(disk)))
    /\ disk' = state'
    /\ prev' = NoPrev
    /\ events' = events + 1
    /\ UNCHANGED <<remote, pc, config, locals, start, effects, passes>>

\* cli reset-state: SyncState.reset()
ResetState ==
    /\ UNCHANGED side
    /\ pc = "idle" /\ events < MaxEvents
    /\ state' = Saved(DefaultState)
    /\ disk' = state'
    /\ prev' = NoPrev
    /\ events' = events + 1
    /\ UNCHANGED <<remote, pc, config, locals, start, effects, passes>>


\* ------------------------------------------------------ engine, fetching
\* SyncEngine._fetch_trakt_activities (one successful call)
FetchTraktActivitiesOldest(st, history, ratings) ==
    LET entries == GetEpisodeHistory(history, st.trakt_last_watched)
        enriched(a) ==
            LET id == <<a.tmdb_show_id, a.season_number, a.episode_number>>
            IN  IF ratings[id] # NoRating THEN [a EXCEPT !.rating = ratings[id]]
                ELSE a
    IN  [activities |-> [i \in 1..Len(entries) |-> enriched(TraktToActivity(entries[i]))],
         st |-> IF entries # <<>>
                THEN [st EXCEPT
                        !.trakt_last_watched = entries[Len(entries)].watched_at,
                        !.trakt_last_fetched = TRUE]
                ELSE st]
FetchTraktActivities(st, history, ratings) ==
    LET entries == GetEpisodeHistory(history, st.trakt_last_watched)
        enriched(a) ==
            LET id == <<a.tmdb_show_id, a.season_number, a.episode_number>>
            IN  IF ratings[id] # NoRating THEN [a EXCEPT !.rating = ratings[id]]
                ELSE a
    IN  [activities |-> [i \in 1..Len(entries) |-> enriched(TraktToActivity(entries[i]))],
         st |-> IF entries # <<>>
                THEN [st EXCEPT
                        !.trakt_last_watched =
                            Max({entries[i].watched_at : i \in 1..Len(entries)}),
                        !.trakt_last_fetched = TRUE]
                ELSE st]

\* SyncEngine._fetch_serializd_activities (one successful call)
FetchSerializdActivities(st, diary) ==
    LET entries == GetDiaryEntries(diary, st.serializd_last_diary)
    IN  [activities |-> [i \in 1..Len(entries) |-> SerializdToActivity(entries[i])],
         st |-> IF entries # <<>>
                THEN [st EXCEPT
                        !.serializd_last_diary =
                            Max({entries[i].date_added : i \in 1..Len(entries)}),
                        !.serializd_last_fetched = TRUE]
                ELSE st]

\* sync(): which steps a direction runs
PushesToSerializd(d) == d \in {"both", "trakt-to-serializd"}
PushesToTraktAlways(d) == TRUE
PushesToTrakt(d) == d \in {"both", "serializd-to-trakt"}
ResolvesConflicts(d) == d = "both"

\* ------------------------------------------------------- engine, a pass
\* The options of a pass (direction, conflict_strategy, dry_run) are fixed
\* when the engine is built and sync() is called; nothing reads one before
\* the step that uses it, so each is drawn at the step of sync() that first
\* reads it.  Until then the variable holds the command line's default.
ClearedLocals ==
    /\ trakt_activities' = <<>>
    /\ serializd_activities' = <<>>
    /\ to_serializd' = <<>>
    /\ to_trakt' = <<>>
    /\ conflicts' = <<>>
    /\ checks' = <<>>
    /\ diaryWrites' = <<>>
    /\ historyWrites' = <<>>
    /\ ratingWrites' = <<>>
    /\ transientSkips' = <<>>
    /\ remoteCalls' = <<>>

DefaultConfig ==
    /\ direction' = "both"
    /\ conflict_strategy' = "trakt-wins"
    /\ dry_run' = FALSE

\* cli sync: SyncState(data_dir), SyncEngine(...), engine.sync(direction)
StartPass ==
    /\ UNCHANGED side
    /\ pc = "idle" /\ passes < MaxPasses
    /\ state' = LoadState(disk)
    /\ start' = state'
    /\ ClearedLocals
    /\ DefaultConfig
    /\ results' = EmptyResults
    /\ pc' = "fetch_trakt"
    /\ UNCHANGED <<remote, disk, prev, passes, events>>

\* sync(): the except branch, when the step at hand raised
PassFailsUnsaved ==
    /\ results' = [results EXCEPT !.errors = @ + 1]
    /\ state' = IncrementStat(state, "errors", 1)
    /\ disk' = disk
    /\ pc' = "idle"
    /\ passes' = passes + 1
    /\ start' = state'
    /\ prev' = [outcome |-> "failed", raised |-> <<"SyncError">>]
    /\ ClearedLocals
    /\ DefaultConfig
    /\ UNCHANGED <<remote, events>>
PassFails ==
    /\ results' = [results EXCEPT !.errors = @ + 1]
    /\ state' = Saved(IncrementStat(state, "errors", 1))
    /\ disk' = state'
    /\ pc' = "idle"
    /\ passes' = passes + 1
    /\ start' = state'
    /\ prev' = [outcome |-> "failed", raised |-> <<"SyncError">>]
    /\ ClearedLocals
    /\ DefaultConfig
    /\ UNCHANGED <<remote, events>>

\* sync(): trakt_activities = self._fetch_trakt_activities()
FetchTrakt ==
    /\ UNCHANGED side
    /\ pc = "fetch_trakt"
    /\ \/ LET got == FetchTraktActivities(state, traktHistory, traktRatings)
          IN  /\ trakt_activities' = got.activities
              /\ state' = got.st
              /\ pc' = "fetch_serializd"
              /\ UNCHANGED <<remote, disk, config, serializd_activities,
                             to_serializd, to_trakt, conflicts, results, start,
                             effects, prev, passes, events>>
       \/ PassFails

\* sync(): serializd_activities = self._fetch_serializd_activities()
FetchSerializd ==
    /\ UNCHANGED side
    /\ pc = "fetch_serializd"
    /\ \/ LET got == FetchSerializdActivities(state, serializdDiary)
          IN  /\ serializd_activities' = got.activities
              /\ state' = got.st
              /\ pc' = "diff"
              /\ UNCHANGED <<remote, disk, config, trakt_activities,
                             to_serializd, to_trakt, conflicts, results, start,
                             effects, prev, passes, events>>
       \/ PassFails

\* sync(): the two diff loops
DiffStep ==
    /\ UNCHANGED side
    /\ pc = "diff"
    /\ \E d \in Directions :
         /\ direction' = d
         /\ to_serializd' =
              IF PushesToSerializd(d)
              THEN Diff(trakt_activities, serializd_activities, state) ELSE <<>>
         /\ to_trakt' =
              IF PushesToTrakt(d)
              THEN Diff(serializd_activities, trakt_activities, state) ELSE <<>>
    /\ pc' = "conflicts"
    /\ UNCHANGED <<remote, ledger, conflict_strategy, dry_run, trakt_activities,
                   serializd_activities, conflicts, results, start, effects,
                   prev, passes, events>>

\* sync(): conflict detection and resolution
ConflictStep ==
    /\ UNCHANGED side
    /\ pc = "conflicts"
    /\ IF ResolvesConflicts(direction)
       THEN \E order \in Orderings(KeySet(trakt_activities)
                                     \cap KeySet(serializd_activities)) :
              LET found == DetectConflicts(trakt_activities,
                                           serializd_activities, order)
              IN  \E s \in IF found = <<>> THEN {conflict_strategy}
                           ELSE Strategies :
                    LET resolved == ResolveConflicts(found, s)
                    IN  /\ conflict_strategy' = s
                        /\ conflicts' = found
                        /\ to_serializd' = to_serializd \o resolved[1]
                        /\ to_trakt' = to_trakt \o resolved[2]
                        /\ results' = [results EXCEPT !.conflicts = Len(found)]
       ELSE UNCHANGED <<conflict_strategy, conflicts, to_serializd, to_trakt,
                        results>>
    /\ pc' = "apply_serializd"
    /\ UNCHANGED <<remote, ledger, direction, dry_run, trakt_activities,
                   serializd_activities, start, effects, prev, passes, events>>

ApplySerializdSavesAtOnce ==
    /\ UNCHANGED side
    /\ pc = "apply_serializd"
    /\ \E dr \in IF to_serializd = <<>> /\ to_trakt = <<>> THEN {dry_run}
                 ELSE BOOLEAN :
         /\ dry_run' = dr
         /\ IF to_serializd # <<>>
            THEN \E avail \in [Range(SeasonKeys(to_serializd)) -> AvailabilityAnswers],
                    wr \in [Range(to_serializd) -> WriteOutcomes] :
                   LET r == SyncToSerializd(state, serializdDiary, to_serializd,
                                            dr, avail, wr)
                   IN  /\ state' = Saved(r.st)
                       /\ disk' = state'
                       /\ serializdDiary' = r.diary
                       /\ results' = [results EXCEPT !.trakt_to_serializd = r.synced]
                       /\ checks' = r.checks
                       /\ diaryWrites' = r.writes
                       /\ transientSkips' = r.skipped
                       /\ remoteCalls' = r.calls
            ELSE UNCHANGED <<state, disk, serializdDiary, results, checks,
                             diaryWrites, transientSkips, remoteCalls>>
    /\ pc' = "apply_trakt"
    /\ UNCHANGED <<traktHistory, traktRatings, direction,
                   conflict_strategy, trakt_activities,
                   serializd_activities, to_serializd, to_trakt, conflicts,
                   start, historyWrites, ratingWrites, prev, passes, events>>
\* sync(): if to_serializd: synced = self._sync_to_serializd(to_serializd)
ApplySerializd ==
    /\ UNCHANGED side
    /\ pc = "apply_serializd"
    /\ \E dr \in IF to_serializd = <<>> /\ to_trakt = <<>> THEN {dry_run}
                 ELSE BOOLEAN :
         /\ dry_run' = dr
         /\ IF to_serializd # <<>>
            THEN \E avail \in [Range(SeasonKeys(to_serializd)) -> AvailabilityAnswers],
                    wr \in [Range(to_serializd) -> WriteOutcomes] :
                   LET r == SyncToSerializd(state, serializdDiary, to_serializd,
                                            dr, avail, wr)
                   IN  /\ state' = r.st
                       /\ serializdDiary' = r.diary
                       /\ results' = [results EXCEPT !.trakt_to_serializd = r.synced]
                       /\ checks' = r.checks
                       /\ diaryWrites' = r.writes
                       /\ transientSkips' = r.skipped
                       /\ remoteCalls' = r.calls
            ELSE UNCHANGED <<state, serializdDiary, results, checks, diaryWrites,
                             transientSkips, remoteCalls>>
    /\ pc' = "apply_trakt"
    /\ UNCHANGED <<traktHistory, traktRatings, disk, direction,
                   conflict_strategy, trakt_activities,
                   serializd_activities, to_serializd, to_trakt, conflicts,
                   start, historyWrites, ratingWrites, prev, passes, events>>

ApplyTraktPropagates ==
    /\ UNCHANGED side
    /\ pc = "apply_trakt"
    /\ IF to_trakt # <<>> /\ ~dry_run
       THEN PassFails
       ELSE /\ pc' = "record"
            /\ UNCHANGED <<remote, ledger, config, locals, start, effects,
                           prev, passes, events>>
\* sync(): if to_trakt: synced = self._sync_to_trakt(to_trakt)
ApplyTrakt ==
    /\ UNCHANGED side
    /\ pc = "apply_trakt"
    /\ IF to_trakt # <<>>
       THEN \E raised \in BOOLEAN, nf \in SUBSET Range(to_trakt),
               rate \in [Range(to_trakt) -> RateOutcomes] :
              LET r == SyncToTrakt(state, traktHistory, traktRatings, to_trakt,
                                   dry_run,
                                   [raised |-> raised, not_found |-> nf,
                                    rate |-> rate])
              IN  /\ state' = r.st
                  /\ traktHistory' = r.history
                  /\ traktRatings' = r.ratings
                  /\ results' = [results EXCEPT !.serializd_to_trakt = r.added]
                  /\ historyWrites' = r.writes
                  /\ ratingWrites' = r.rating_pushes
                  /\ remoteCalls' = remoteCalls \o r.calls
       ELSE UNCHANGED <<state, traktHistory, traktRatings, results,
                        historyWrites, ratingWrites, remoteCalls>>
    /\ pc' = "record"
    /\ UNCHANGED <<serializdDiary, disk, config, trakt_activities,
                   serializd_activities, to_serializd, to_trakt, conflicts,
                   start, checks, diaryWrites, transientSkips, prev, passes,
                   events>>

\* sync(): record_sync(...), save(), return results
Record ==
    /\ UNCHANGED side
    /\ pc = "record"
    /\ state' = Saved(RecordSync(state, results.trakt_to_serializd,
                                 results.serializd_to_trakt, results.conflicts,
                                 results.errors))
    /\ disk' = state'
    /\ pc' = "idle"
    /\ passes' = passes + 1
    /\ start' = state'
    /\ prev' = [outcome |-> "completed", direction |-> direction,
                conflict_strategy |-> conflict_strategy, dry_run |-> dry_run,
                skipped |-> transientSkips]
    /\ ClearedLocals
    /\ DefaultConfig
    /\ UNCHANGED <<remote, results, events>>

Next ==
    \/ UserWatchesOnTrakt
    \/ UserRatesOnTrakt
    \/ UserLogsOnSerializd
    \/ ResetExclusions
    \/ ResetState
    \/ StartPass
    \/ FetchTrakt
    \/ FetchSerializd
    \/ DiffStep
    \/ ConflictStep
    \/ ApplySerializd
    \/ ApplyTrakt
    \/ Record

Spec == Init /\ [][Next]_vars

\* ------------------------------------- passes over a diary kept beforehand
\* Before the first pass the user has logged two episodes in the Serializd
\* diary, one after the other, each backdated to the time of watching.
UserKeptDiary ==
    /\ UNCHANGED side
    /\ pc = "idle" /\ passes = 0 /\ events = 0
    /\ serializdDiary = {}
    /\ \E w1 \in Watchable, w2 \in Watchable :
          /\ <<w1[1], w1[2], w1[3]>> # <<w2[1], w2[2], w2[3]>>
          /\ serializdDiary' =
                {[show |-> w1[1], season |-> w1[2], episode |-> w1[3],
                  date_added |-> 0, backdate |-> w1[4],
                  is_rewatch |-> FALSE, rating |-> 0],
                 [show |-> w2[1], season |-> w2[2], episode |-> w2[3],
                  date_added |-> 1, backdate |-> w2[4],
                  is_rewatch |-> FALSE, rating |-> 0]}
    /\ prev' = NoPrev
    /\ UNCHANGED <<traktHistory, traktRatings, ledger, pc, config, locals,
                   start, effects, passes, events>>

\* incremental passes: the user keeps watching on Trakt between the passes
NextIncremental ==
    \/ UserKeptDiary
    \/ UserWatchesOnTrakt
    \/ StartPass
    \/ FetchTrakt
    \/ FetchSerializd
    \/ DiffStep
    \/ ConflictStep
    \/ ApplySerializd
    \/ ApplyTrakt
    \/ Record

SpecIncremental == Init /\ [][NextIncremental]_vars

\* --------------------------------------- a caller that drives SyncState
\* The ledger is also an object of its own: the command line and the tests
\* build a SyncState on a directory and call its methods one after another.
\* The activities such a caller passes: two of one key (same episode and
\* day, all else different) and one of the day after.
CallerActivities ==
    {[tmdb_show_id |-> 1, season_number |-> 1, episode_number |-> 1,
      watched_at |-> 0, is_rewatch |-> FALSE, rating |-> 8, source |-> "trakt"],
     [tmdb_show_id |-> 1, season_number |-> 1, episode_number |-> 1,
      watched_at |-> 1, is_rewatch |-> TRUE, rating |-> 6, source |-> "serializd"],
     [tmdb_show_id |-> 1, season_number |-> 1, episode_number |-> 1,
      watched_at |-> TicksPerDay, is_rewatch |-> FALSE, rating |-> NoRating,
      source |-> "trakt"]}
CallerBatches == [1..2 -> CallerActivities]
CallerReasons == {"season_not_found", "no_tmdb_id"}
CallerTimes == {1, 2}
\* the fields a hand-edited or older document can lack
LackingChoices ==
    {{"synced_activities"}, {"excluded_activities", "stats"},
     {"trakt", "serializd"}, DocumentFields}

\* one call that returns: the ledger it leaves in memory
Returns(name, args, st) ==
    /\ pc = "idle" /\ ops < MaxOps
    /\ fault = ""
    /\ state' = st
    /\ before' = state
    /\ op' = [name |-> name, args |-> args, raised |-> FALSE]
    /\ ops' = ops + 1
    /\ UNCHANGED <<engine, command, compare, retry, disk, fault>>

\* SyncState(data_dir)
NewSyncState ==
    /\ pc = "idle" /\ ops < MaxOps
    /\ state' = LoadFile(file).st
    /\ fault' = LoadFile(file).fault
    /\ before' = state
    /\ op' = [name |-> "__init__", args |-> <<>>,
              raised |-> LoadFile(file).fault = "UnicodeDecodeError"]
    /\ ops' = ops + 1
    /\ UNCHANGED <<engine, command, compare, retry, disk, file>>

CallMarkSynced ==
    \E a \in CallerActivities :
       /\ Returns("mark_synced", <<a>>, MarkSynced(state, a))
       /\ UNCHANGED file

CallMarkSyncedBatch ==
    \E as \in CallerBatches :
       /\ Returns("mark_synced_batch", as, MarkSyncedBatch(state, as))
       /\ UNCHANGED file

CallExcludeActivity ==
    \E a \in CallerActivities, r \in CallerReasons :
       /\ Returns("exclude_activity", <<a, r>>, ExcludeActivity(state, a, r))
       /\ UNCHANGED file

CallExcludeActivitiesBatch ==
    \E as \in CallerBatches, r \in CallerReasons :
       /\ Returns("exclude_activities_batch", <<as, r>>,
                  ExcludeActivitiesBatch(state, as, r))
       /\ UNCHANGED file

CallClearExclusions ==
    /\ Returns("clear_exclusions", <<>>, ClearExclusions(state))
    /\ UNCHANGED file

\* the setters of trakt_last_watched and serializd_last_diary
CallSetWatermark ==
    \E t \in CallerTimes :
       \/ /\ Returns("trakt_last_watched", <<t>>,
                     [state EXCEPT !.trakt_last_watched = t])
          /\ UNCHANGED file
       \/ /\ Returns("serializd_last_diary", <<t>>,
                     [state EXCEPT !.serializd_last_diary = t])
          /\ UNCHANGED file

CallRecordSync ==
    /\ Returns("record_sync", <<1, 0, 1, 0>>, RecordSync(state, 1, 0, 1, 0))
    /\ UNCHANGED file

CallSave ==
    /\ Returns("save", <<>>, Saved(state))
    /\ file' = SavedFile(state)

\* reset() rebuilds _state, so it also works on a _state that is no object
CallResetInMemory ==
    /\ pc = "idle" /\ ops < MaxOps
    /\ fault \in {"", "AttributeError"}
    /\ state' = Saved(DefaultState)
    /\ fault' = ""
    /\ before' = state
    /\ op' = [name |-> "reset", args |-> <<>>, raised |-> FALSE]
    /\ ops' = ops + 1
    /\ UNCHANGED <<engine, command, compare, retry, disk, file>>
CallReset ==
    /\ pc = "idle" /\ ops < MaxOps
    /\ fault \in {"", "AttributeError"}
    /\ state' = Saved(DefaultState)
    /\ file' = SavedFile(DefaultState)
    /\ fault' = ""
    /\ before' = state
    /\ op' = [name |-> "reset", args |-> <<>>, raised |-> FALSE]
    /\ ops' = ops + 1
    /\ UNCHANGED <<engine, command, compare, retry, disk>>

\* any other accessor or method on a _state that is no object raises
CallOnBrokenState ==
    /\ pc = "idle" /\ ops < MaxOps
    /\ fault = "AttributeError"
    /\ \E name \in {"is_synced", "mark_synced", "exclude_activity",
                    "trakt_last_watched", "record_sync", "save"} :
          op' = [name |-> name, args |-> <<>>, raised |-> TRUE]
    /\ before' = state
    /\ ops' = ops + 1
    /\ UNCHANGED <<engine, command, compare, retry, ledger, file, fault>>

\* something other than save() changes the file: it is removed, damaged,
\* or replaced by a document without some of the fields
FileChanges ==
    /\ pc = "idle" /\ ops < MaxOps
    /\ \E f \in {MissingFile, UnparsableFile, NotAnObjectFile, UndecodableFile}
                \cup (IF file.kind = "doc"
                      THEN {Document(file.doc, l) : l \in LackingChoices}
                      ELSE {}) :
          /\ f # file
          /\ file' = f
    /\ op' = [name |-> "file", args |-> <<>>, raised |-> FALSE]
    /\ before' = state
    /\ ops' = ops + 1
    /\ UNCHANGED <<engine, command, compare, retry, ledger, fault>>

NextLedger ==
    \/ NewSyncState
    \/ CallMarkSynced
    \/ CallMarkSyncedBatch
    \/ CallExcludeActivity
    \/ CallExcludeActivitiesBatch
    \/ CallClearExclusions
    \/ CallSetWatermark
    \/ CallRecordSync
    \/ CallSave
    \/ CallReset
    \/ CallOnBrokenState
    \/ FileChanges

SpecLedger == Init /\ [][NextLedger]_vars

\* ---------------------------------------------- comparing two activities
\* WatchActivity objects as either platform can give them: ids of one and
\* of two digits, watch times on two days, both sources
KeyShows == {1, 11}
KeySeasons == {1, 11}
KeyEpisodes == {1, 2}
KeyTimes == 0..(2 * TicksPerDay - 1)
AllActivities ==
    [tmdb_show_id : KeyShows, season_number : KeySeasons,
     episode_number : KeyEpisodes, watched_at : KeyTimes,
     is_rewatch : BOOLEAN, rating : {NoRating, 8},
     source : {"trakt", "serializd"}]

\* two activities come to hand
PickActivities ==
    /\ pair = NoPair
    /\ \E a \in AllActivities, b \in AllActivities : pair' = <<a, b>>
    /\ UNCHANGED <<engine, command, ledger, caller, retry, compared>>

\* a.key == b.key, a == b, hash(a) == hash(b)
CompareActivities ==
    /\ pair # NoPair /\ ~compared.done
    /\ compared' = [done |-> TRUE,
                    keys_equal |-> Key(pair[1]) = Key(pair[2]),
                    eq |-> ActivityEq(pair[1], pair[2]),
                    hashes_equal |->
                       ActivityHash(pair[1]) = ActivityHash(pair[2])]
    /\ UNCHANGED <<engine, command, ledger, caller, retry, pair>>

NextKeys ==
    \/ PickActivities
    \/ CompareActivities

SpecKeys == Init /\ [][NextKeys]_vars

\* ------------------------------------------------- retry_with_backoff
\* the classes of exceptions.py and the built-in ones retry.py names, each
\* with its base class
ExceptionBases ==
    [c \in {"Exception", "SyncError", "TraktError", "TraktAuthError",
            "TraktRateLimitError", "SerializdError", "SerializdAuthError",
            "SerializdEmptySeasonError", "ConflictError", "StateError",
            "OSError", "ConnectionError", "ConnectionResetError",
            "TimeoutError", "ValueError"} |->
       CASE c \in {"SyncError", "OSError", "ValueError"} -> "Exception"
         [] c \in {"TraktError", "SerializdError", "ConflictError",
                   "StateError"} -> "SyncError"
         [] c \in {"TraktAuthError", "TraktRateLimitError"} -> "TraktError"
         [] c \in {"SerializdAuthError", "SerializdEmptySeasonError"} ->
               "SerializdError"
         [] c \in {"ConnectionError", "TimeoutError"} -> "OSError"
         [] c = "ConnectionResetError" -> "ConnectionError"
         [] OTHER -> "Exception"]

\* isinstance(e, cls), on the class of e
RECURSIVE IsInstance(_, _)
IsInstance(c, cls) ==
    \/ c = cls
    \/ c # "Exception" /\ IsInstance(ExceptionBases[c], cls)

\* retry_with_backoff: the defaults of base_delay, exponential_base and
\* retryable_exceptions
BaseDelay == 1
ExponentialBase == 2
RetryableExceptionsAny == {"Exception"}
RetryableExceptions ==
    {"TraktError", "SerializdError", "ConnectionError", "TimeoutError"}

\* except TraktRateLimitError / except retryable_exceptions: does the
\* clause catch an exception of class c
IsRateLimit(c) == IsInstance(c, "TraktRateLimitError")
IsRetryable(c) == \E cls \in RetryableExceptions : IsInstance(c, cls)

\* if attempt < max_retries
MayRetryAlways(n, budget) == TRUE
MayRetry(n, budget) == n < budget

Min(x, y) == IF x <= y THEN x ELSE y

RECURSIVE Pow(_, _)
Pow(b, n) == IF n = 0 THEN 1 ELSE b * Pow(b, n - 1)

\* the delay before the retry that follows attempt n
RateLimitDelay(e, cap) == Min(e.retry_after, cap)
BackoffDelayUncapped(n, cap) == BaseDelay * Pow(ExponentialBase, n)
BackoffDelay(n, cap) == Min(BaseDelay * Pow(ExponentialBase, n), cap)

\* what a caller passes and what the wrapped function can do
RetryBudgets == -1..3
MaxDelays == {3, 60}
RetryAfters == {-1, 5, 120}
RaisedClasses ==
    {"TraktError", "TraktAuthError", "SerializdAuthError",
     "SerializdEmptySeasonError", "ConnectionResetError", "TimeoutError",
     "SyncError", "StateError", "ValueError"}

\* the calls of func the wrapper has made
Calls == SelectSeq(trace, LAMBDA ev : ev.ev = "call")
Sleeps == SelectSeq(trace, LAMBDA ev : ev.ev = "sleep")

\* the exception object the call at hand raises
Raised(c, retry_after) ==
    [class |-> c, id |-> Len(Calls) + 1, retry_after |-> retry_after]

\* a decorated function is called
CallWrapper ==
    /\ outcome = NotCalled
    /\ \E n \in RetryBudgets, d \in MaxDelays :
          /\ max_retries' = n
          /\ max_delay' = d
    /\ attempt' = 0
    /\ last_exception' = NoException
    /\ trace' = <<>>
    /\ outcome' = [kind |-> "running"]
    /\ UNCHANGED <<engine, command, ledger, caller, compare>>

\* the wrapper is in its loop: for attempt in range(max_retries + 1)
InLoop == outcome.kind = "running" /\ attempt <= max_retries

\* raise: e leaves the wrapper
Propagates(e) ==
    /\ trace' = Append(trace, [ev |-> "call", exception |-> e])
    /\ outcome' = [kind |-> "raised", exception |-> e]
    /\ UNCHANGED attempt

\* time.sleep(delay), then the next turn of the loop; time.sleep raises
\* ValueError on a negative delay
SleepsThenRetries(e, delay) ==
    IF delay < 0
    THEN /\ trace' = Append(trace, [ev |-> "call", exception |-> e])
         /\ outcome' = [kind |-> "raised",
                        exception |-> [class |-> "ValueError", id |-> 0,
                                       retry_after |-> 0]]
         /\ UNCHANGED <<attempt, last_exception>>
    ELSE /\ trace' = Append(Append(trace, [ev |-> "call", exception |-> e]),
                            [ev |-> "sleep", delay |-> delay])
         /\ last_exception' = e
         /\ attempt' = attempt + 1
         /\ UNCHANGED outcome

\* return func(*args, **kwargs)
FuncReturns ==
    /\ InLoop
    /\ trace' = Append(trace, [ev |-> "call", exception |-> NoException])
    /\ outcome' = [kind |-> "returned"]
    /\ UNCHANGED <<engine, command, ledger, caller, compare, max_retries, max_delay,
                   attempt, last_exception>>

\* except TraktRateLimitError as e
FuncRaisesRateLimit ==
    /\ InLoop
    /\ \E ra \in RetryAfters :
          LET e == Raised("TraktRateLimitError", ra)
          IN  IF MayRetry(attempt, max_retries)
              THEN SleepsThenRetries(e, RateLimitDelay(e, max_delay))
              ELSE Propagates(e) /\ UNCHANGED last_exception
    /\ UNCHANGED <<engine, command, ledger, caller, compare, max_retries, max_delay>>

\* except retryable_exceptions as e
FuncRaisesRetryable ==
    /\ InLoop
    /\ \E c \in RaisedClasses :
          LET e == Raised(c, 0)
          IN  /\ IsRetryable(c) /\ ~IsRateLimit(c)
              /\ IF MayRetry(attempt, max_retries)
                 THEN SleepsThenRetries(e, BackoffDelay(attempt, max_delay))
                 ELSE Propagates(e) /\ last_exception' = e
    /\ UNCHANGED <<engine, command, ledger, caller, compare, max_retries, max_delay>>

\* an exception no except clause of the wrapper catches
FuncRaisesOtherRetried ==
    /\ InLoop
    /\ \E c \in RaisedClasses :
          LET e == Raised(c, 0)
          IN  /\ ~IsRetryable(c) /\ ~IsRateLimit(c)
              /\ IF MayRetry(attempt, max_retries)
                 THEN SleepsThenRetries(e, BackoffDelay(attempt, max_delay))
                 ELSE Propagates(e) /\ last_exception' = e
    /\ UNCHANGED <<engine, command, ledger, caller, compare, max_retries, max_delay>>
FuncRaisesOther ==
    /\ InLoop
    /\ \E c \in RaisedClasses :
          /\ ~IsRetryable(c) /\ ~IsRateLimit(c)
          /\ Propagates(Raised(c, 0))
    /\ UNCHANGED <<engine, command, ledger, caller, compare, max_retries, max_delay,
                   last_exception>>

\* the loop ends without a return or a raise: the lines after it
LoopEnds ==
    /\ outcome.kind = "running" /\ attempt > max_retries
    /\ outcome' = [kind |-> "raised",
                   exception |-> IF last_exception.class # "None"
                                 THEN last_exception
                                 ELSE [class |-> "SyncError", id |-> 0,
                                       retry_after |-> 0]]
    /\ UNCHANGED <<engine, command, ledger, caller, compare, max_retries, max_delay,
                   attempt, last_exception, trace>>

NextRetry ==
    \/ CallWrapper
    \/ FuncReturns
    \/ FuncRaisesRateLimit
    \/ FuncRaisesRetryable
    \/ FuncRaisesOther
    \/ LoopEnds

SpecRetry == Init /\ [][NextRetry]_vars

\* ------------------------------------------------------- the sync command
\* cli.py, sync(): the command is invoked with its options; the clients and
\* the ledger are built, and each client will find a saved token or not.
InvokeSync ==
    /\ cli_pc = "not_invoked"
    /\ \E t \in BOOLEAN, z \in BOOLEAN, d \in Directions, c \in Strategies,
          dr \in BOOLEAN, w \in BOOLEAN :
          /\ tokens' = [trakt |-> t, serializd |-> z]
          /\ options' = [direction |-> d, conflict_strategy |-> c,
                         dry_run |-> dr, watch |-> w]
    /\ cli_pc' = "load_trakt"
    /\ UNCHANGED <<engine, ledger, caller, compare, retry,
                   run, syncs, stderr, exit_code>>

\* if not trakt.load_saved_token(): echo to stderr, sys.exit(1)
LoadTraktToken ==
    /\ cli_pc = "load_trakt"
    /\ IF tokens.trakt
       THEN /\ cli_pc' = "load_serializd"
            /\ UNCHANGED <<stderr, exit_code>>
       ELSE /\ stderr' = Append(stderr, "Not authenticated with Trakt")
            /\ exit_code' = 1
            /\ cli_pc' = "exited"
    /\ UNCHANGED <<engine, ledger, caller, compare, retry,
                   tokens, options, run, syncs>>

\* if not serializd.load_saved_token(): echo to stderr, sys.exit(1)
LoadSerializdToken ==
    /\ cli_pc = "load_serializd"
    /\ IF tokens.serializd
       THEN /\ cli_pc' = "run_sync"
            /\ UNCHANGED <<stderr, exit_code>>
       ELSE /\ stderr' = Append(stderr, "Not authenticated with Serializd")
            /\ exit_code' = 1
            /\ cli_pc' = "exited"
    /\ UNCHANGED <<engine, ledger, caller, compare, retry,
                   tokens, options, run, syncs>>

\* run_sync() is called and calls engine.sync(): a pass is in progress
StartRunSync ==
    /\ cli_pc = "run_sync"
    /\ cli_pc' = "syncing"
    /\ run' = "in_progress"
    /\ UNCHANGED <<engine, ledger, caller, compare, retry,
                   tokens, options, syncs, stderr, exit_code>>

\* run_sync(): engine.sync() returns the results, which are echoed, or it
\* raises SyncError, which is caught and echoed to stderr; either way
\* run_sync returns, to the watch loop or to the end of the command.
RunSync(raised) ==
    /\ cli_pc = "syncing"
    /\ run' = IF raised THEN "SyncError" ELSE "results"
    /\ stderr' = IF raised THEN Append(stderr, "Sync failed") ELSE stderr
    /\ syncs' = syncs + 1
    /\ cli_pc' = IF options.watch THEN "sleep" ELSE "exited"
    /\ UNCHANGED <<engine, ledger, caller, compare, retry,
                   tokens, options, exit_code>>

RunSyncReturns == RunSync(FALSE)
RunSyncCatchesSyncError == RunSync(TRUE)

\* Ctrl+C while engine.sync() runs: KeyboardInterrupt is no Exception, so
\* the except clause of sync() does not catch it, nor does the except
\* SyncError of run_sync, and the call of run_sync in the watch loop stands
\* outside the try around time.sleep.  The pass is left where it stood,
\* without record_sync() and save(), and the command ends on the
\* interrupt with a status that is not 0.
InterruptedInPass ==
    /\ cli_pc = "syncing"
    /\ run' = "aborted"
    /\ syncs' = syncs + 1
    /\ cli_pc' = "exited"
    /\ exit_code' = 1
    /\ UNCHANGED <<engine, ledger, caller, compare, retry,
                   tokens, options, stderr>>

\* while True: run_sync(); time.sleep(interval * 60)
WatchSleeps ==
    /\ cli_pc = "sleep"
    /\ syncs < MaxSyncs
    /\ cli_pc' = "run_sync"
    /\ UNCHANGED <<engine, ledger, caller, compare, retry,
                   tokens, options, run, syncs, stderr, exit_code>>

\* except KeyboardInterrupt: break
WatchInterrupted ==
    /\ cli_pc = "sleep"
    /\ cli_pc' = "exited"
    /\ UNCHANGED <<engine, ledger, caller, compare, retry,
                   tokens, options, run, syncs, stderr, exit_code>>

NextCli ==
    \/ InvokeSync
    \/ LoadTraktToken
    \/ LoadSerializdToken
    \/ StartRunSync
    \/ RunSyncReturns
    \/ RunSyncCatchesSyncError
    \/ InterruptedInPass
    \/ WatchSleeps
    \/ WatchInterrupted

SpecCli == Init /\ [][NextCli]_vars

\* ------------------------------------------------------------ properties
\* every activity a platform has been asked to store in the pass at hand
Pushed == Range(diaryWrites) \cup Range(historyWrites) \cup Range(ratingWrites)

\* the steps of sync() that follow the diff / the conflict handling
AfterDiff == pc \in {"conflicts", "apply_serializd", "apply_trakt", "record"}
AfterConflicts == pc \in {"apply_serializd", "apply_trakt", "record"}

\* the pushes that conflict resolution appended to the two lists: the diff
\* schedules only keys the other index lacks, a conflict is a shared key
ResolvedToSerializd ==
    SelectSeq(to_serializd, LAMBDA a : Key(a) \in KeySet(serializd_activities))
ResolvedToTrakt ==
    SelectSeq(to_trakt, LAMBDA a : Key(a) \in KeySet(trakt_activities))

\* the activities the pass at hand has fetched
Fetched == Range(trakt_activities) \cup Range(serializd_activities)

\* C1: a key that is in the synced set when a pass starts is pushed to
\* neither platform during that pass, whatever scheduled the push (the diff
\* or the conflict resolution).
C1_SyncedKeyNotPushed ==
    \A a \in Pushed : Key(a) \notin SyncedKeys(start)

\* C2: a key that is in the excluded map when a pass starts gets no
\* availability check and no write in that pass.
C2_ExcludedKeyUntouched ==
    /\ \A a \in Pushed : Key(a) \notin ExcludedKeys(start)
    /\ \A a \in Range(to_serializd) :
          SeasonOf(a) \in Range(checks) => Key(a) \notin ExcludedKeys(start)

\* C3: a pass that follows a completed pass, with the same options, nothing
\* skipped by the first one and nothing done to the platforms or the ledger
\* in between, pushes nothing and leaves the synced set and the excluded map
\* as they were.
C3_SecondPassPushesNothing ==
    ( /\ pc = "record"
      /\ prev.outcome = "completed"
      /\ ~prev.dry_run /\ ~dry_run
      /\ prev.skipped = <<>>
      /\ direction = prev.direction
      /\ conflict_strategy = prev.conflict_strategy )
    => /\ Pushed = {}
       /\ SyncedKeys(state) = SyncedKeys(start)
       /\ state.excluded_activities = start.excluded_activities

\* C4: right after the diff, the keys scheduled for Serializd are exactly
\* the keys of the Trakt index that the Serializd index lacks and the ledger
\* holds neither as synced nor as excluded, each scheduled once with the
\* activity the index holds; the same with the platforms exchanged; a
\* direction that does not push to a platform schedules nothing for it.
C4_DiffSchedulesUnhandledMissing ==
    pc = "conflicts" =>
      /\ KeySet(to_serializd) =
           IF direction \in {"both", "trakt-to-serializd"}
           THEN {k \in KeySet(trakt_activities) :
                    /\ k \notin KeySet(serializd_activities)
                    /\ k \notin SyncedKeys(state) \cup ExcludedKeys(state)}
           ELSE {}
      /\ KeySet(to_trakt) =
           IF direction \in {"both", "serializd-to-trakt"}
           THEN {k \in KeySet(serializd_activities) :
                    /\ k \notin KeySet(trakt_activities)
                    /\ k \notin SyncedKeys(state) \cup ExcludedKeys(state)}
           ELSE {}
      /\ Len(to_serializd) = Cardinality(KeySet(to_serializd))
      /\ Len(to_trakt) = Cardinality(KeySet(to_trakt))
      /\ \A a \in Range(to_serializd) : a = MapGet(trakt_activities, Key(a))
      /\ \A a \in Range(to_trakt) : a = MapGet(serializd_activities, Key(a))

W4_DiffSkipsExcludedKey ==
    /\ pc = "conflicts"
    /\ to_serializd # <<>>
    /\ \E a \in Range(trakt_activities) :
          /\ Key(a) \notin KeySet(serializd_activities)
          /\ Key(a) \in ExcludedKeys(state)

\* C5: a pass from Trakt to Serializd sends Trakt no history and no rating,
\* counts 0 for Serializd to Trakt and finds no conflict; a pass from
\* Serializd to Trakt asks Serializd for no season, writes no diary entry,
\* counts 0 for Trakt to Serializd and finds no conflict.  Conflicts are
\* found and resolved only when the direction is both.
C5_OneDirectionOnly ==
    AfterDiff =>
      /\ direction = "trakt-to-serializd" =>
            /\ to_trakt = <<>>
            /\ historyWrites = <<>> /\ ratingWrites = <<>>
            /\ results.serializd_to_trakt = 0
      /\ direction = "serializd-to-trakt" =>
            /\ to_serializd = <<>>
            /\ checks = <<>> /\ diaryWrites = <<>>
            /\ results.trakt_to_serializd = 0
      /\ direction # "both" =>
            /\ conflicts = <<>>
            /\ results.conflicts = 0
            /\ ResolvedToSerializd = <<>> /\ ResolvedToTrakt = <<>>

W5_OneWayPassLeavesOtherSide ==
    /\ pc = "record"
    /\ direction = "trakt-to-serializd"
    /\ diaryWrites # <<>>
    /\ \E a \in Range(serializd_activities) :
          /\ Key(a) \notin KeySet(trakt_activities)
          /\ ~IsSynced(state, a)

\* C6: the conflicts detected are one pair per key that both indices hold
\* with two ratings that are both given and differ; the pair is (Trakt's
\* activity, Serializd's activity) of that key.  A shared key with equal
\* ratings or with a rating missing on either side gives no pair.
C6_ConflictIffRatingsDifferNonNull ==
    (AfterConflicts /\ direction = "both") =>
      /\ {Key(conflicts[i][1]) : i \in 1..Len(conflicts)} =
           {k \in KeySet(trakt_activities) \cap KeySet(serializd_activities) :
              LET t == MapGet(trakt_activities, k)
                  z == MapGet(serializd_activities, k)
              IN  /\ t.rating # NoRating
                  /\ z.rating # NoRating
                  /\ t.rating # z.rating}
      /\ Len(conflicts) = Cardinality({Key(conflicts[i][1]) : i \in 1..Len(conflicts)})
      /\ \A i \in 1..Len(conflicts) :
            /\ conflicts[i][1] = MapGet(trakt_activities, Key(conflicts[i][1]))
            /\ conflicts[i][2] = MapGet(serializd_activities, Key(conflicts[i][1]))

W6_ConflictDetected ==
    /\ pc = "apply_serializd"
    /\ direction = "both"
    /\ Len(conflicts) = 1
    /\ conflicts[1][1].rating = 8
    /\ conflicts[1][2].rating = 6

\* C7: under trakt-wins every conflict schedules its Trakt activity, with
\* Trakt's rating, for Serializd and nothing for Trakt; under serializd-wins
\* the other way round; under every strategy each conflict schedules one
\* push, and the result counts the conflicts detected.
C7_ResolutionSchedulesWinner ==
    (AfterConflicts /\ direction = "both") =>
      /\ results.conflicts = Len(conflicts)
      /\ Len(ResolvedToSerializd) + Len(ResolvedToTrakt) = Len(conflicts)
      /\ \A i \in 1..Len(conflicts) :
            (conflicts[i][1] \in Range(ResolvedToSerializd))
               # (conflicts[i][2] \in Range(ResolvedToTrakt))
      /\ conflict_strategy = "trakt-wins" =>
            /\ ResolvedToTrakt = <<>>
            /\ ResolvedToSerializd = [i \in 1..Len(conflicts) |-> conflicts[i][1]]
            /\ \A a \in Range(ResolvedToSerializd) :
                  /\ a.source = "trakt"
                  /\ a.rating = MapGet(trakt_activities, Key(a)).rating
                  /\ a.rating # MapGet(serializd_activities, Key(a)).rating
      /\ conflict_strategy = "serializd-wins" =>
            /\ ResolvedToSerializd = <<>>
            /\ ResolvedToTrakt = [i \in 1..Len(conflicts) |-> conflicts[i][2]]
            /\ \A a \in Range(ResolvedToTrakt) :
                  /\ a.source = "serializd"
                  /\ a.rating = MapGet(serializd_activities, Key(a)).rating
                  /\ a.rating # MapGet(trakt_activities, Key(a)).rating

W7_TraktWinsPushesEight ==
    /\ pc = "apply_serializd"
    /\ direction = "both"
    /\ conflict_strategy = "trakt-wins"
    /\ results.conflicts = 1
    /\ Len(to_serializd) = 1
    /\ to_serializd[1].rating = 8
    /\ to_serializd[1].source = "trakt"
    /\ to_trakt = <<>>

\* C8: under newest-wins a conflict whose Trakt activity was watched at or
\* after the time the Serializd activity was watched (the timestamps, not
\* the days) schedules the Trakt activity for Serializd; otherwise it
\* schedules the Serializd activity for Trakt.
C8_NewestWinsTiesToSerializd ==
    (AfterConflicts /\ direction = "both" /\ conflict_strategy = "newest-wins") =>
      \A i \in 1..Len(conflicts) :
         IF conflicts[i][1].watched_at >= conflicts[i][2].watched_at
         THEN /\ conflicts[i][1] \in Range(ResolvedToSerializd)
              /\ conflicts[i][2] \notin Range(ResolvedToTrakt)
         ELSE /\ conflicts[i][2] \in Range(ResolvedToTrakt)
              /\ conflicts[i][1] \notin Range(ResolvedToSerializd)

W8_NewestWinsTie ==
    /\ pc = "apply_serializd"
    /\ direction = "both"
    /\ conflict_strategy = "newest-wins"
    /\ Len(conflicts) = 1
    /\ conflicts[1][1].watched_at = conflicts[1][2].watched_at
    /\ to_serializd = <<conflicts[1][1]>>

\* C9: but for a reset of the ledger, no step lowers the Trakt last-watched
\* or the Serializd last-diary watermark; a fetch that returns entries sets
\* the watermark to the greatest timestamp among them (watched_at for
\* Trakt, date_added for Serializd), and a fetch that returns none leaves
\* it as it was.
C9_WatermarkStep ==
    /\ ~(pc = "idle" /\ pc' = "idle" /\ state' = Saved(DefaultState)) =>
          /\ state'.trakt_last_watched >= state.trakt_last_watched
          /\ state'.serializd_last_diary >= state.serializd_last_diary
    /\ (pc = "fetch_trakt" /\ pc' = "fetch_serializd") =>
          LET got == GetEpisodeHistory(traktHistory, state.trakt_last_watched)
          IN  /\ Len(trakt_activities') = Len(got)
              /\ state'.trakt_last_watched =
                   IF got = <<>> THEN state.trakt_last_watched
                   ELSE Max({got[i].watched_at : i \in 1..Len(got)})
    /\ (pc = "fetch_serializd" /\ pc' = "diff") =>
          LET got == GetDiaryEntries(serializdDiary, state.serializd_last_diary)
          IN  /\ Len(serializd_activities') = Len(got)
              /\ state'.serializd_last_diary =
                   IF got = <<>> THEN state.serializd_last_diary
                   ELSE Max({got[i].date_added : i \in 1..Len(got)})

C9_WatermarkMonotone == [][C9_WatermarkStep]_vars

W9_WatermarkAdvancedToNewest ==
    /\ pc = "fetch_serializd"
    /\ Len(trakt_activities) = 2
    /\ trakt_activities[1].watched_at > trakt_activities[2].watched_at
    /\ start.trakt_last_watched # NoTime
    /\ state.trakt_last_watched = trakt_activities[1].watched_at
    /\ state.trakt_last_watched > start.trakt_last_watched

\* C10: is_synced(a) holds exactly when the key of a is in the synced list
\* or in the excluded map: never on a fresh ledger, and always after
\* mark_synced or exclude_activity of an activity with the key of a.  It is
\* stated of the activities the pass at hand has fetched and of the ledger
\* as it stands.
C10_IsSyncedIffSyncedOrExcluded ==
    \A a \in Fetched :
       /\ ~IsSynced(DefaultState, a)
       /\ IsSynced(state, a) <=>
             (Key(a) \in SyncedKeys(state) \/ Key(a) \in ExcludedKeys(state))
       /\ \A b \in Fetched :
             Key(a) = Key(b) =>
                /\ IsSynced(MarkSynced(state, b), a)
                /\ IsSynced(MarkSynced(DefaultState, b), a)
                /\ \A r \in Reasons :
                      /\ IsSynced(ExcludeActivity(state, b, r), a)
                      /\ IsSynced(ExcludeActivity(DefaultState, b, r), a)

W10_ExcludedOnlyIsHandled ==
    \E a \in Fetched :
       /\ Key(a) \in ExcludedKeys(state)
       /\ Key(a) \notin SyncedKeys(state)
       /\ IsSynced(state, a)

\* the keys of the activities of a batch
BatchKeys(as) == {Key(as[i]) : i \in 1..Len(as)}

\* the watermarks of a ledger
Watermarks(st) ==
    <<st.trakt_last_fetched, st.trakt_last_watched,
      st.serializd_last_fetched, st.serializd_last_diary>>

\* C11: mark_synced and mark_synced_batch insert into a set: the synced
\* list holds no key twice, synced_count is the number of its keys, a call
\* leaves the keys it found plus the keys it was given, and a call given
\* only keys that are already synced (one activity, or a batch, repeated
\* keys included) changes nothing.
C11_MarkSyncedIsSetInsert ==
    /\ \A k \in SyncedKeys(state) : CopiesIn(k, state.synced_activities) = 1
    /\ SyncedCount(state) = Cardinality(SyncedKeys(state))
    /\ (op.name = "mark_synced" /\ ~op.raised) =>
          /\ SyncedKeys(state) = SyncedKeys(before) \cup {Key(op.args[1])}
          /\ Key(op.args[1]) \in SyncedKeys(before) => state = before
          /\ [state EXCEPT !.synced_activities = EmptyBag]
                = [before EXCEPT !.synced_activities = EmptyBag]
    /\ (op.name = "mark_synced_batch" /\ ~op.raised) =>
          /\ SyncedKeys(state) = SyncedKeys(before) \cup BatchKeys(op.args)
          /\ SyncedCount(state) =
                Cardinality(SyncedKeys(before) \cup BatchKeys(op.args))
          /\ BatchKeys(op.args) \subseteq SyncedKeys(before) => state = before
          /\ [state EXCEPT !.synced_activities = EmptyBag]
                = [before EXCEPT !.synced_activities = EmptyBag]

W11_RepeatedKeyBatchOnSyncedKey ==
    /\ op.name = "mark_synced_batch"
    /\ op.args[1] # op.args[2]
    /\ Key(op.args[1]) = Key(op.args[2])
    /\ Key(op.args[1]) \in SyncedKeys(before)
    /\ SyncedCount(before) = 2
    /\ SyncedCount(state) = 2

\* C12: exclude_activity and exclude_activities_batch add 1 to the
\* "excluded" counter for each key they put into the excluded map and that
\* the map did not hold; a key the map holds keeps its reason, and a call
\* given only such keys changes nothing.
C12_ExcludeCountsNewKeysOnce ==
    /\ (op.name = "exclude_activity" /\ ~op.raised) =>
          LET k == Key(op.args[1])
          IN  IF k \in ExcludedKeys(before) THEN state = before
              ELSE /\ ExcludedKeys(state) = ExcludedKeys(before) \cup {k}
                   /\ state.excluded_activities[k] = op.args[2]
                   /\ \A j \in ExcludedKeys(before) :
                         state.excluded_activities[j] = before.excluded_activities[j]
                   /\ state.stats.excluded = before.stats.excluded + 1
    /\ (op.name = "exclude_activities_batch" /\ ~op.raised) =>
          LET new == BatchKeys(op.args[1]) \ ExcludedKeys(before)
          IN  /\ ExcludedKeys(state) = ExcludedKeys(before) \cup new
              /\ \A k \in new : state.excluded_activities[k] = op.args[2]
              /\ \A j \in ExcludedKeys(before) :
                    state.excluded_activities[j] = before.excluded_activities[j]
              /\ state.stats.excluded = before.stats.excluded + Cardinality(new)
              /\ new = {} => state = before
    /\ op.name \in {"exclude_activity", "exclude_activities_batch"} =>
          [state EXCEPT !.excluded_activities = <<>>, !.stats.excluded = 0]
             = [before EXCEPT !.excluded_activities = <<>>, !.stats.excluded = 0]

W12_BatchRepeatsNewKey ==
    /\ op.name = "exclude_activities_batch"
    /\ op.args[1][1] # op.args[1][2]
    /\ Key(op.args[1][1]) = Key(op.args[1][2])
    /\ Key(op.args[1][1]) \notin ExcludedKeys(before)
    /\ ExcludedKeys(before) # {}
    /\ state.stats.excluded = before.stats.excluded + 1

\* C13: reset() leaves an empty synced list, an empty excluded map, no
\* watermark and zero counters, in memory and in the file: a SyncState
\* built on the directory right after it loads the same cleared values.
C13_ResetClearsAndPersists ==
    (op.name = "reset") =>
       /\ fault = ""
       /\ SyncedKeys(state) = {} /\ SyncedCount(state) = 0
       /\ ExcludedKeys(state) = {}
       /\ Watermarks(state) = Watermarks(DefaultState)
       /\ state.stats = DefaultState.stats
       /\ file.kind = "doc"
       /\ LoadFile(file).fault = ""
       /\ LoadFile(file).st = state

W13_ResetOfUsedLedger ==
    /\ op.name = "reset"
    /\ SyncedKeys(before) # {}
    /\ before.stats.excluded > 0
    /\ before.trakt_last_watched # NoTime

\* C14: clear_exclusions() empties the excluded map and changes nothing
\* else (the synced list, the watermarks and the counters stay); an
\* activity whose key was excluded and is not synced is then not handled,
\* and a diff that finds it on one platform only schedules it.
C14_ClearExclusionsFrame ==
    (op.name = "clear_exclusions" /\ ~op.raised) =>
       /\ ExcludedKeys(state) = {}
       /\ state.synced_activities = before.synced_activities
       /\ Watermarks(state) = Watermarks(before)
       /\ state.stats = before.stats
       /\ \A a \in CallerActivities :
             (Key(a) \in ExcludedKeys(before) /\ Key(a) \notin SyncedKeys(before)) =>
                /\ IsSynced(before, a)
                /\ ~IsSynced(state, a)
                /\ Diff(<<a>>, <<>>, state) = <<a>>

W14_ClearedKeyEligibleAgain ==
    /\ op.name = "clear_exclusions"
    /\ SyncedKeys(before) # {}
    /\ before.serializd_last_diary # NoTime
    /\ \E a \in CallerActivities :
          /\ Key(a) \in ExcludedKeys(before)
          /\ Key(a) \notin SyncedKeys(before)
          /\ Diff(<<a>>, <<>>, before) = <<>>

\* C15: what save() writes, a new SyncState on the directory reads back:
\* the same watermarks, synced keys, excluded map and counters.
C15_SaveLoadRoundTrip ==
    /\ fault = "" =>
          /\ LoadFile(SavedFile(state)).fault = ""
          /\ LoadFile(SavedFile(state)).st = Saved(state)
    /\ (op.name = "save" /\ ~op.raised) =>
          /\ LoadFile(file).fault = ""
          /\ SyncedKeys(LoadFile(file).st) = SyncedKeys(before)
          /\ LoadFile(file).st.excluded_activities = before.excluded_activities
          /\ Watermarks(LoadFile(file).st) = Watermarks(before)
          /\ LoadFile(file).st.stats = before.stats
    /\ (op.name = "__init__" /\ ops > 0 /\ file.kind = "doc" /\ file.lacking = {}) =>
          /\ fault = ""
          /\ ToDocument(state) = file.doc

W15_LoadedWhatWasSaved ==
    /\ op.name = "__init__"
    /\ ops > 0
    /\ file.kind = "doc" /\ file.lacking = {}
    /\ before = state
    /\ SyncedKeys(state) # {}
    /\ state.trakt_last_watched # NoTime

\* C16: building a SyncState on a directory whose file is missing, damaged
\* or lacks fields succeeds, the ledger it holds reads as the default
\* wherever the file gives nothing, and no call on it raises.
C16_LoadNeverFails ==
    /\ ~op.raised
    /\ (op.name = "__init__" /\ ops > 0) =>
          /\ fault = ""
          /\ state = IF file.kind = "doc"
                     THEN ReadWithDefaults(file.doc, file.lacking)
                     ELSE DefaultState

\* the four things the identity of an activity rests on
SameEpisodeAndDay(a, b) ==
    /\ a.tmdb_show_id = b.tmdb_show_id
    /\ a.season_number = b.season_number
    /\ a.episode_number = b.episode_number
    /\ DateStr(a.watched_at) = DateStr(b.watched_at)

\* C17: two activities have equal keys, and compare equal, exactly when
\* they have the same show id, season number, episode number and calendar
\* day of watched_at, and then their hashes are equal too; the time of
\* day, the source, the rating and the rewatch flag play no part.
C17_KeyIsEpisodeAndDay ==
    compared.done =>
       /\ compared.keys_equal <=> SameEpisodeAndDay(pair[1], pair[2])
       /\ compared.eq <=> SameEpisodeAndDay(pair[1], pair[2])
       /\ SameEpisodeAndDay(pair[1], pair[2]) => compared.hashes_equal

W17_EqualDespiteAllElse ==
    /\ compared.done
    /\ compared.keys_equal /\ compared.eq /\ compared.hashes_equal
    /\ pair[1].watched_at # pair[2].watched_at
    /\ pair[1].source # pair[2].source
    /\ pair[1].rating # pair[2].rating
    /\ pair[1].is_rewatch # pair[2].is_rewatch

\* C18: a step of a pass that raises ends the pass in the except branch:
\* the errors counter of the ledger and of the result go up by one, no
\* other counter moves, the ledger is saved with every synced key,
\* exclusion and watermark it held when the step raised (those the pass
\* had set included), the file reads back as that ledger, and one
\* SyncError reaches the caller.
C18_FailedStep ==
    (pc # "idle" /\ pc' = "idle" /\ prev'.outcome = "failed") =>
       /\ state'.stats = [state.stats EXCEPT !.errors = @ + 1]
       /\ results' = [results EXCEPT !.errors = @ + 1]
       /\ state'.synced_activities = state.synced_activities
       /\ state'.excluded_activities = state.excluded_activities
       /\ Watermarks(state') = Watermarks(state)
       /\ disk' = state'
       /\ LoadState(disk') = state'
       /\ SyncedKeys(start) \subseteq SyncedKeys(disk')
       /\ ExcludedKeys(start) \subseteq ExcludedKeys(disk')
       /\ prev'.raised = <<"SyncError">>
C18_FailurePersistsAndRaisesOnce == [][C18_FailedStep]_vars

W18_FailedAfterWatermarkMoved ==
    /\ pc = "idle"
    /\ prev.outcome = "failed"
    /\ disk.stats.errors = 1
    /\ disk.stats.total_syncs = 0
    /\ passes = 1
    /\ disk.trakt_last_watched # NoTime
    /\ disk.last_sync

\* the call of func failed in a way the wrapper retries
RetriedFailure(ev) ==
    /\ ev.exception.class # "None"
    /\ IsRateLimit(ev.exception.class) \/ IsRetryable(ev.exception.class)

\* C19: a function wrapped with max_retries = N is called at most N + 1
\* times; a call that returns ends the wrapper at once; when N + 1 calls
\* have all failed with a rate-limit or retryable exception, the caller
\* gets the exception object of the last call, and the wrapper has slept N
\* times, never after the last call.
C19_RetryBudget ==
    outcome.kind # "not_called" =>
       /\ Len(Calls) <= Max({max_retries + 1, 0})
       /\ \A i \in 1..Len(trace) :
             (trace[i].ev = "call" /\ trace[i].exception.class = "None") =>
                i = Len(trace) /\ outcome.kind = "returned"
       /\ outcome.kind = "returned" =>
             /\ trace # <<>>
             /\ trace[Len(trace)].ev = "call"
             /\ trace[Len(trace)].exception.class = "None"
       /\ ( /\ Len(Calls) = max_retries + 1
            /\ Len(Calls) > 0
            /\ \A i \in 1..Len(Calls) : RetriedFailure(Calls[i]) ) =>
             /\ outcome.kind = "raised"
             /\ outcome.exception = Calls[Len(Calls)].exception
             /\ outcome.exception.id = max_retries + 1
             /\ trace[Len(trace)].ev = "call"
             /\ Len(Sleeps) = max_retries

W19_BudgetOfThreeSpent ==
    /\ max_retries = 3
    /\ Len(Calls) = 4
    /\ Len(Sleeps) = 3
    /\ Calls[1].exception.class = "TimeoutError"
    /\ Calls[2].exception.class = "TraktRateLimitError"
    /\ Calls[4].exception.class = "TraktRateLimitError"
    /\ outcome.kind = "raised"
    /\ outcome.exception = Calls[4].exception

\* C20: a call of func that fails with an exception that is neither a
\* rate-limit one nor of a retryable class is the last thing the wrapper
\* does: that exception reaches the caller, with no sleep and no further
\* call; when it is the first call, func has been called once.
C20_OtherFailurePropagatesAtOnce ==
    \A i \in 1..Len(trace) :
       ( /\ trace[i].ev = "call"
         /\ trace[i].exception.class # "None"
         /\ ~RetriedFailure(trace[i]) ) =>
          /\ i = Len(trace)
          /\ outcome.kind = "raised"
          /\ outcome.exception = trace[i].exception
          /\ i = 1 => Len(Calls) = 1 /\ Sleeps = <<>>

W20_ValueErrorOnFirstCall ==
    /\ max_retries = 3
    /\ Len(trace) = 1
    /\ trace[1].ev = "call"
    /\ trace[1].exception.class = "ValueError"
    /\ outcome.kind = "raised"
    /\ outcome.exception.class = "ValueError"

\* C21: a call of func that fails with TraktAuthError or SerializdAuthError
\* is the last thing the wrapper does: the failure reaches the caller with
\* no wait and no further call, and when it is the first call func has
\* been called once.
C21_AuthFailureNotRetried ==
    \A i \in 1..Len(trace) :
       ( /\ trace[i].ev = "call"
         /\ trace[i].exception.class \in {"TraktAuthError", "SerializdAuthError"} ) =>
          /\ i = Len(trace)
          /\ outcome.kind = "raised"
          /\ outcome.exception = trace[i].exception
          /\ i = 1 => Len(Calls) = 1 /\ Sleeps = <<>>

\* the availability checks of the pass at hand that answered: not
\* available, with a reason
PermanentChecks ==
    {i \in 1..Len(remoteCalls) :
        /\ remoteCalls[i].call = "check_season_availability"
        /\ ~remoteCalls[i].answer.is_available
        /\ remoteCalls[i].answer.exclusion_reason # ""}

\* the pending activities of a (show, season) group
PendingOf(g) == {a \in Range(to_serializd) : SeasonOf(a) = g}

\* C22: after the apply to Serializd, every pending activity of a group
\* whose availability check answered not available with a reason is in the
\* excluded map under that reason, its key was not added to the synced
\* list, no diary write was attempted for it, and the excluded counter
\* has grown by the number of keys the pass added to the excluded map.
C22_PermanentGroupExcluded ==
    pc = "apply_trakt" =>
       /\ \A i \in PermanentChecks :
             \A a \in PendingOf(remoteCalls[i].season) :
                /\ Key(a) \in ExcludedKeys(state)
                /\ state.excluded_activities[Key(a)] =
                      remoteCalls[i].answer.exclusion_reason
                /\ Key(a) \in SyncedKeys(state) => Key(a) \in SyncedKeys(start)
                /\ a \notin Range(diaryWrites)
       /\ ExcludedKeys(start) \subseteq ExcludedKeys(state)
       /\ state.stats.excluded =
             start.stats.excluded
                + Cardinality(ExcludedKeys(state) \ ExcludedKeys(start))

\* the same when no pending activity comes from a resolved conflict
C22_WithoutConflicts ==
    (pc = "apply_trakt" /\ conflicts = <<>>) => C22_PermanentGroupExcluded

\* the availability checks of the pass at hand that answered: available
AvailableChecks ==
    {i \in 1..Len(remoteCalls) :
        /\ remoteCalls[i].call = "check_season_availability"
        /\ remoteCalls[i].answer.is_available}

\* the add_diary_entry calls of the pass at hand, all / those that succeeded
DiaryCalls ==
    {i \in 1..Len(remoteCalls) : remoteCalls[i].call = "add_diary_entry"}
DiaryCallsOk == {i \in DiaryCalls : remoteCalls[i].outcome = "ok"}

\* the pending activities of the seasons found available, in order
PendingAvailable ==
    SelectSeq(to_serializd,
              LAMBDA a : \E i \in AvailableChecks : remoteCalls[i].season = SeasonOf(a))

\* C23 once the apply to Serializd has run: one add_diary_entry call per
\* pending activity of each available season, whatever the earlier calls
\* gave; every activity written is synced; the count of the result is the
\* number of calls that succeeded.
C23_AfterApply ==
    /\ Cardinality(DiaryCalls) = Len(PendingAvailable)
    /\ \A a \in Range(PendingAvailable) :
          \E i \in DiaryCalls : remoteCalls[i].activity = a
    /\ \A i \in DiaryCalls :
          /\ remoteCalls[i].activity \in Range(PendingAvailable)
          /\ Key(remoteCalls[i].activity) \in SyncedKeys(state)
    /\ results.trakt_to_serializd = Cardinality(DiaryCallsOk)

\* C23: writes to Serializd in an available season.  Each pending activity
\* is written on its own; a write that succeeds marks it synced and counts
\* one; a write that is rejected or raises marks it synced, counts nothing
\* and does not stop the writes that follow; the result's count is the
\* number of successful writes, and when the pass ends the keys written
\* are in the synced list, in memory and in the file.
C23_Step ==
    /\ (pc = "apply_serializd" /\ pc' = "apply_trakt") => C23_AfterApply'
    /\ (pc = "record" /\ pc' = "idle") =>
          /\ C23_AfterApply
          /\ \A i \in DiaryCalls :
                /\ Key(remoteCalls[i].activity) \in SyncedKeys(state')
                /\ Key(remoteCalls[i].activity) \in SyncedKeys(disk')
          /\ results'.trakt_to_serializd = Cardinality(DiaryCallsOk)
          /\ state'.stats.trakt_to_serializd =
                state.stats.trakt_to_serializd + Cardinality(DiaryCallsOk)
C23_WritesToSerializd == [][C23_Step]_vars

W23_FailedWriteThenGoodWrite ==
    /\ pc = "record"
    /\ Len(remoteCalls) >= 3
    /\ remoteCalls[2].call = "add_diary_entry"
    /\ remoteCalls[2].outcome = "raised"
    /\ remoteCalls[3].call = "add_diary_entry"
    /\ remoteCalls[3].outcome = "ok"
    /\ results.trakt_to_serializd = 1
    /\ Key(remoteCalls[2].activity) \in SyncedKeys(state)
    /\ Key(remoteCalls[3].activity) \in SyncedKeys(state)

\* C24: the sync command ends with a non-zero exit status when a platform
\* is not authenticated, and when the pass of a single run (no --watch)
\* ended in SyncError.
C24_FailureExitsNonZero ==
    cli_pc = "exited" =>
       ( ( \/ ~tokens.trakt
           \/ ~tokens.serializd
           \/ (~options.watch /\ run = "SyncError") ) => exit_code # 0 )

\* the half of C24 about authentication alone
C24_NotAuthenticatedExitsNonZero ==
    cli_pc = "exited" =>
       ((~tokens.trakt \/ ~tokens.serializd) => exit_code = 1)

\* the availability checks of the pass at hand that answered: not available,
\* for a reason that may pass (no exclusion reason given)
TransientChecks ==
    {i \in 1..Len(remoteCalls) :
        /\ remoteCalls[i].call = "check_season_availability"
        /\ ~remoteCalls[i].answer.is_available
        /\ remoteCalls[i].answer.exclusion_reason = ""}

\* how often the synced list of a ledger holds a key
SyncedTimes(st, k) == CopiesIn(k, st.synced_activities)

\* C25: a season found unavailable for a passing reason leaves the ledger
\* as it was: none of the group's pending activities is added to the synced
\* list or to the excluded map, none is written to Serializd, the group
\* is noted as skipped, and every other group of the batch is still checked.
C25_Step ==
    (pc = "apply_serializd" /\ pc' = "apply_trakt") =>
       /\ \A i \in TransientChecks' :
             \A a \in PendingOf(remoteCalls'[i].season) :
                /\ SyncedTimes(state', Key(a)) = SyncedTimes(state, Key(a))
                /\ Key(a) \in ExcludedKeys(state') <=> Key(a) \in ExcludedKeys(state)
                /\ \A j \in DiaryCalls' : remoteCalls'[j].activity # a
                /\ a \notin Range(diaryWrites')
                /\ a \in Range(transientSkips')
       /\ (~dry_run' /\ to_serializd # <<>>) =>
             \A a \in Range(to_serializd) :
                \E i \in 1..Len(remoteCalls') :
                   /\ remoteCalls'[i].call = "check_season_availability"
                   /\ remoteCalls'[i].season = SeasonOf(a)
C25_TransientLeavesLedger == [][C25_Step]_vars

W25_TransientThenNextGroup ==
    /\ pc = "apply_trakt"
    /\ \E i \in TransientChecks :
          /\ PendingOf(remoteCalls[i].season) # {}
          /\ \A a \in PendingOf(remoteCalls[i].season) :
                Key(a) \notin SyncedKeys(state) \cup ExcludedKeys(state)
          /\ \E j \in AvailableChecks : j > i
          /\ \E j \in DiaryCallsOk : j > i

\* an activity of Trakt is still in the Trakt history
StillOnTrakt(x) ==
    \E h \in traktHistory :
       /\ <<h.show, h.season, h.episode>> =
             <<x.tmdb_show_id, x.season_number, x.episode_number>>
       /\ h.watched_at = x.watched_at

\* no diary entry of Serializd has the key of the activity
AbsentFromSerializd(x) ==
    \A e \in serializdDiary : Key(SerializdToActivity(e)) # Key(x)

\* the same episode watched on the same day: the activities the ledger and
\* the diff take for one
SameWatch(a, x) == Key(a) = Key(x)

\* the pass at hand follows, with nothing in between, a pass that was
\* completed, no dry run, in the same direction
FollowsCompletedPass ==
    /\ prev # NoPrev
    /\ prev.outcome = "completed"
    /\ ~prev.dry_run
    /\ direction = prev.direction

\* C26: a group skipped because its season was unavailable for a passing
\* reason is taken up by the next pass: an activity the last pass skipped,
\* still in the Trakt history and with no diary entry of its key, has been
\* fetched again and is scheduled for Serializd once the next pass in the
\* same direction has planned its pushes.
C26_SkippedGroupRetried ==
    (pc = "apply_serializd" /\ FollowsCompletedPass) =>
       \A i \in 1..Len(prev.skipped) :
          LET x == prev.skipped[i]
          IN  (StillOnTrakt(x) /\ AbsentFromSerializd(x)) =>
                 /\ \E j \in 1..Len(trakt_activities) :
                       SameWatch(trakt_activities[j], x)
                 /\ \E j \in 1..Len(to_serializd) :
                       SameWatch(to_serializd[j], x)

\* C26 for the newest activity the last pass fetched from Trakt
C26_NewestSkippedRetried ==
    (pc = "apply_serializd" /\ FollowsCompletedPass) =>
       \A i \in 1..Len(prev.skipped) :
          LET x == prev.skipped[i]
          IN  ( /\ StillOnTrakt(x)
                /\ AbsentFromSerializd(x)
                /\ x.watched_at = start.trakt_last_watched ) =>
                 /\ \E j \in 1..Len(trakt_activities) :
                       SameWatch(trakt_activities[j], x)
                 /\ \E j \in 1..Len(to_serializd) :
                       SameWatch(to_serializd[j], x)

\* the remote calls of the apply phase at hand that raised, and the
\* availability checks that answered with a failure of the network or server
FailedRemoteCalls ==
    {i \in 1..Len(remoteCalls) :
        IF remoteCalls[i].call = "check_season_availability"
        THEN i \in TransientChecks
        ELSE remoteCalls[i].outcome = "raised"}

\* C27: a failure of a remote call of the apply phase never fails the
\* pass.  Whatever the availability checks, the diary writes, the bulk
\* add and the rating pushes gave, the apply to Serializd goes on to the
\* apply to Trakt and that to the recording, no error is counted, and the
\* recording ends the pass as completed with its results; a pass ends as
\* failed, with sync() raising, only out of one of the two fetches.
C27_Step ==
    /\ (pc # "idle" /\ pc' = "idle" /\ prev'.outcome = "failed") =>
          pc \in {"fetch_trakt", "fetch_serializd"}
    /\ (pc = "apply_serializd" /\ pc' # pc) =>
          /\ pc' = "apply_trakt"
          /\ results'.errors = results.errors
          /\ state'.stats.errors = state.stats.errors
    /\ (pc = "apply_trakt" /\ pc' # pc) =>
          /\ pc' = "record"
          /\ results'.errors = results.errors
          /\ state'.stats.errors = state.stats.errors
    /\ (pc = "record" /\ pc' # pc) =>
          /\ pc' = "idle"
          /\ prev'.outcome = "completed"
          /\ results' = results
          /\ state'.stats.total_syncs = start.stats.total_syncs + 1
          /\ disk' = state'
C27_ApplyFailuresNeverFailPass == [][C27_Step]_vars

W27_WriteAndBulkAddRaised ==
    /\ pc = "record"
    /\ results.errors = 0
    /\ \E i \in FailedRemoteCalls : remoteCalls[i].call = "add_diary_entry"
    /\ \E i \in FailedRemoteCalls : remoteCalls[i].call = "add_to_history"

\* the add_to_history calls and the add_rating calls of the pass at hand
BulkCalls ==
    {i \in 1..Len(remoteCalls) : remoteCalls[i].call = "add_to_history"}
RatingCalls ==
    SelectSeq(remoteCalls, LAMBDA c : c.call = "add_rating")

\* C28: the apply to Trakt.  Once _sync_to_trakt has run on a batch that
\* is not empty, in a pass that is no dry run, one bulk add was made with
\* the whole batch and every activity of the batch is in the synced list,
\* whether the bulk add succeeded, reported episodes as not found, or
\* raised; when it raised, nothing is counted: the count returned and the
\* count of the result are 0, and the Trakt history is as it was.
C28_Step ==
    (pc = "apply_trakt" /\ pc' = "record" /\ to_trakt # <<>> /\ ~dry_run) =>
       /\ Cardinality(BulkCalls') = 1
       /\ \A i \in BulkCalls' :
             /\ remoteCalls'[i].activities = to_trakt
             /\ remoteCalls'[i].outcome = "raised" =>
                   /\ results'.serializd_to_trakt = 0
                   /\ traktHistory' = traktHistory
       /\ \A a \in Range(to_trakt) : Key(a) \in SyncedKeys(state')
C28_BatchToTraktAlwaysSynced == [][C28_Step]_vars

W28_BulkAddRaised ==
    /\ pc = "record"
    /\ to_trakt # <<>>
    /\ \E i \in BulkCalls : remoteCalls[i].outcome = "raised"
    /\ results.serializd_to_trakt = 0
    /\ \A a \in Range(to_trakt) :
          Key(a) \in SyncedKeys(state) /\ Key(a) \notin SyncedKeys(start)

\* the activities of the batch for Trakt that carry a rating, in order
Rated(as) == SelectSeq(as, LAMBDA a : a.rating # NoRating)

\* C29: rating pushes to Trakt.  After a bulk add that succeeded, one
\* rating push has been made for every activity of the batch that has a
\* rating, in the order of the batch, and none for an activity without;
\* a push that fails does not stop those after it, takes no key out of the
\* synced list and leaves the count as the bulk add gave it.  After a
\* bulk add that raised no rating is pushed.
C29_Step ==
    (pc = "apply_trakt" /\ pc' = "record" /\ to_trakt # <<>> /\ ~dry_run) =>
       \A i \in BulkCalls' :
          IF remoteCalls'[i].outcome = "ok"
          THEN /\ [j \in 1..Len(RatingCalls') |-> RatingCalls'[j].activity] =
                     Rated(to_trakt)
               /\ \A a \in Range(to_trakt) : Key(a) \in SyncedKeys(state')
               /\ SyncedKeys(state) \subseteq SyncedKeys(state')
               /\ results'.serializd_to_trakt =
                     Len(SelectSeq(to_trakt,
                            LAMBDA a : a \notin remoteCalls'[i].not_found))
          ELSE RatingCalls' = <<>>
C29_RatingPushes == [][C29_Step]_vars

W29_FailedPushThenNextPush ==
    /\ pc = "record"
    /\ Len(to_trakt) = 2
    /\ Len(RatingCalls) = 2
    /\ RatingCalls[1].outcome = "raised"
    /\ RatingCalls[2].outcome = "ok"
    /\ results.serializd_to_trakt = 2
    /\ \A a \in Range(to_trakt) : Key(a) \in SyncedKeys(state)

\* the 0-based number of the attempt whose call is the event i of the trace
AttemptOf(i) == Cardinality({j \in 1..i : trace[j].ev = "call"}) - 1

\* C30: the waits of the retry policy.  Every wait follows a failed
\* attempt; after attempt k (counted from 0) it lasts
\* min(retry_after, max_delay) when the attempt failed as rate limited and
\* min(base_delay * exponential_base^k, max_delay) when it failed in
\* another retryable way; no wait is longer than max_delay.
C30_RetryWaits ==
    \A i \in 1..Len(trace) :
       trace[i].ev = "sleep" =>
          /\ i > 1
          /\ trace[i - 1].ev = "call"
          /\ LET e == trace[i - 1].exception
                 k == AttemptOf(i - 1)
             IN  trace[i].delay =
                    IF e.class = "TraktRateLimitError"
                    THEN IF e.retry_after <= max_delay
                         THEN e.retry_after ELSE max_delay
                    ELSE IF BaseDelay * Pow(ExponentialBase, k) <= max_delay
                         THEN BaseDelay * Pow(ExponentialBase, k)
                         ELSE max_delay
          /\ trace[i].delay <= max_delay

W30_BackoffThenCappedWaits ==
    /\ max_delay = 3
    /\ Len(Sleeps) = 3
    /\ Calls[1].exception.class = "TraktError"
    /\ Sleeps[1].delay = 1
    /\ Calls[2].exception.class = "TraktRateLimitError"
    /\ Calls[2].exception.retry_after = 120
    /\ Sleeps[2].delay = 3
    /\ Calls[3].exception.class = "TimeoutError"
    /\ Sleeps[3].delay = 3

\* the counters record_sync adds to, without the error counter
RecordedCounters(st) ==
    <<st.stats.total_syncs, st.stats.trakt_to_serializd,
      st.stats.serializd_to_trakt, st.stats.conflicts_resolved>>

\* C31: the order of a pass.  While the pass fetches, diffs and resolves
\* conflicts no availability check and no write has been made on either
\* platform, and none is made by those steps; a pass that fails, which it
\* does out of a fetch, has made none at all; the counters of record_sync
\* and the file of the ledger stay as the pass found them through both
\* applies and change only in the recording step, which itself calls
\* neither platform.
C31_Step ==
    /\ pc \in {"fetch_trakt", "fetch_serializd", "diff", "conflicts"} =>
          /\ remoteCalls = <<>> /\ remoteCalls' = <<>>
          /\ Pushed = {} /\ checks = <<>>
          /\ remote' = remote
    /\ (pc # "idle" /\ pc' = "idle" /\ prev'.outcome = "failed") =>
          /\ remoteCalls = <<>>
          /\ Pushed = {}
          /\ remote' = remote
    /\ (pc \notin {"idle", "record"} /\ pc' # "idle") =>
          /\ RecordedCounters(state') = RecordedCounters(start)
          /\ disk' = disk
    /\ (pc = "record" /\ pc' = "idle") =>
          /\ remote' = remote
          /\ disk' = state'
          /\ RecordedCounters(state') =
                <<start.stats.total_syncs + 1,
                  start.stats.trakt_to_serializd + results.trakt_to_serializd,
                  start.stats.serializd_to_trakt + results.serializd_to_trakt,
                  start.stats.conflicts_resolved + results.conflicts>>
C31_PassOrdering == [][C31_Step]_vars

W31_PushedBothWaysNotYetRecorded ==
    /\ pc = "record"
    /\ DiaryCallsOk # {}
    /\ \E i \in BulkCalls : remoteCalls[i].outcome = "ok"
    /\ results.trakt_to_serializd = 1
    /\ results.serializd_to_trakt = 1
    /\ RecordedCounters(state) = RecordedCounters(start)
    /\ SyncedKeys(disk) = {}
    /\ SyncedKeys(state) # {}

\* C32: the counters.  The recording step of a completed pass adds 1 to
\* total_syncs and the counts of the pass's result to trakt_to_serializd,
\* serializd_to_trakt, conflicts_resolved and errors, touches no other
\* counter, and saves them; no other step of a pass changes those four
\* counters, so over completed passes each is the sum of the results and
\* total_syncs the number of passes; total_syncs never exceeds the number
\* of passes that ended.
C32_Step ==
    /\ (pc = "record" /\ pc' = "idle") =>
          /\ state'.stats.total_syncs = state.stats.total_syncs + 1
          /\ state'.stats.trakt_to_serializd =
                state.stats.trakt_to_serializd + results.trakt_to_serializd
          /\ state'.stats.serializd_to_trakt =
                state.stats.serializd_to_trakt + results.serializd_to_trakt
          /\ state'.stats.conflicts_resolved =
                state.stats.conflicts_resolved + results.conflicts
          /\ state'.stats.errors = state.stats.errors + results.errors
          /\ state'.stats.excluded = state.stats.excluded
          /\ disk'.stats = state'.stats
    /\ (pc # "idle" /\ pc # "record") =>
          RecordedCounters(state') = RecordedCounters(state)
    /\ state'.stats.total_syncs <= passes'
C32_CounterAccounting == [][C32_Step]_vars

W32_TwoPassesSummed ==
    /\ pc = "idle"
    /\ passes = 2
    /\ prev.outcome = "completed"
    /\ results.trakt_to_serializd = 1
    /\ results.conflicts = 1
    /\ disk.stats.total_syncs = 2
    /\ disk.stats.trakt_to_serializd = 2
    /\ disk.stats.conflicts_resolved = 2

\* C33: in watch mode passes do not overlap and none is cut short.  A pass
\* is begun only when none is in progress, and every pass that was begun
\* ends by engine.sync() returning its results or raising SyncError, after
\* the ledger was saved; an interrupt ends the command only between passes.
C33_PassNeverAborted ==
    /\ run # "aborted"
    /\ cli_pc = "exited" /\ options.watch /\ tokens.trakt /\ tokens.serializd =>
          run \in {"results", "SyncError"}

\* the half of C33 about overlap: a pass is in progress only inside run_sync
C33_PassesDoNotOverlap ==
    (run = "in_progress") <=> (cli_pc = "syncing")

\* C34: no key is both in the synced list and in the excluded map, in the
\* ledger in memory and in the file, whatever passes have run.
C34_SyncedAndExcludedDisjoint ==
    /\ SyncedKeys(state) \cap ExcludedKeys(state) = {}
    /\ SyncedKeys(disk) \cap ExcludedKeys(disk) = {}

\* C34 as long as no pass has had a conflict to resolve
C34_DisjointWithoutConflicts ==
    (state.stats.conflicts_resolved = 0 /\ conflicts = <<>>) =>
       C34_SyncedAndExcludedDisjoint

\* the synced list and the excluded map of a ledger
Handled(st) == <<st.synced_activities, st.excluded_activities>>

\* C35: a dry run writes nothing.  With dry_run set, the apply to
\* Serializd, the apply to Trakt and the recording make no availability
\* check, no diary add, no history add and no rating push, both platforms
\* stay as they were, the synced list and the excluded map stay as the
\* pass found them, in memory and in the file, and the result reports 0
\* moved in both directions.
C35_Step ==
    /\ (pc = "apply_serializd" /\ pc' = "apply_trakt" /\ dry_run') =>
          /\ remoteCalls' = <<>> /\ checks' = <<>> /\ Pushed' = {}
          /\ remote' = remote
          /\ Handled(state') = Handled(start)
          /\ results'.trakt_to_serializd = 0
    /\ (pc = "apply_trakt" /\ pc' = "record" /\ dry_run) =>
          /\ remoteCalls' = <<>> /\ checks' = <<>> /\ Pushed' = {}
          /\ remote' = remote
          /\ Handled(state') = Handled(start)
          /\ results'.trakt_to_serializd = 0
          /\ results'.serializd_to_trakt = 0
    /\ (pc = "record" /\ pc' = "idle" /\ dry_run) =>
          /\ remoteCalls = <<>>
          /\ remote' = remote
          /\ Handled(state') = Handled(start)
          /\ Handled(disk') = Handled(start)
          /\ results'.trakt_to_serializd = 0
          /\ results'.serializd_to_trakt = 0
C35_DryRunWritesNothing == [][C35_Step]_vars

W35_DryRunWithPendingBothWays ==
    /\ pc = "record"
    /\ dry_run
    /\ to_serializd # <<>>
    /\ to_trakt # <<>>
    /\ remoteCalls = <<>>
    /\ results.trakt_to_serializd = 0
    /\ results.serializd_to_trakt = 0

\* what a pass that starts with the ledger st, on the platforms as they
\* are, schedules for Serializd (side 1) and for Trakt (side 2) in
\* direction d under strategy cs: the two fetches, the diff and the
\* resolution of conflicts of sync(), as sets of activities
Planned(st, d, cs) ==
    LET t == FetchTraktActivities(st, traktHistory, traktRatings)
        z == FetchSerializdActivities(t.st, serializdDiary)
        after == z.st
        order == CHOOSE o \in Orderings(KeySet(t.activities)
                                          \cap KeySet(z.activities)) : TRUE
        resolved == IF ResolvesConflicts(d)
                    THEN ResolveConflicts(
                            DetectConflicts(t.activities, z.activities, order), cs)
                    ELSE <<<<>>, <<>>>>
    IN  << (IF PushesToSerializd(d)
            THEN Range(Diff(t.activities, z.activities, after)) ELSE {})
              \cup Range(resolved[1]),
           (IF PushesToTrakt(d)
            THEN Range(Diff(z.activities, t.activities, after)) ELSE {})
              \cup Range(resolved[2]) >>

\* the pass at hand is the second, the first was a completed dry run, and
\* nothing has happened on the platforms or to the ledger since it ended:
\* the ledger the dry run started with held no watermark and no key
AfterFirstPassDryRun ==
    /\ passes = 1
    /\ prev.outcome = "completed"
    /\ prev.dry_run

\* C36: a dry run does not change what a later pass does.  A pass that
\* follows a dry run, on the same platform contents, schedules for each
\* platform activities of the same keys as a pass would have scheduled had
\* the dry run not taken place.
C36_DryRunLeavesLaterPassAlone ==
    (pc = "apply_serializd" /\ AfterFirstPassDryRun) =>
       LET planned == Planned(DefaultState, direction, conflict_strategy)
       IN  /\ KeySet(to_serializd) = {Key(a) : a \in planned[1]}
           /\ KeySet(to_trakt) = {Key(a) : a \in planned[2]}

\* what holds of the plan itself: a first pass schedules what Planned says
C36_FirstPassAsPlanned ==
    (pc = "apply_serializd" /\ passes = 0
       /\ Handled(start) = Handled(DefaultState)
       /\ start.trakt_last_watched = NoTime
       /\ start.serializd_last_diary = NoTime) =>
       LET planned == Planned(DefaultState, direction, conflict_strategy)
       IN  /\ Range(to_serializd) = planned[1]
           /\ Range(to_trakt) = planned[2]

\* the pass at hand is the second and the first one failed after its
\* Trakt fetch had returned entries (it moved the watermark, which no
\* earlier pass can have done); nothing has happened since it ended
AfterFirstPassFailedInSerializdFetch ==
    /\ passes = 1
    /\ prev.outcome = "failed"
    /\ start.trakt_last_watched # NoTime

\* C37: a failed pass loses no work.  When the first pass fetched from
\* Trakt and then failed in the Serializd fetch, so that it applied
\* nothing, the next pass fetches every activity which that Trakt fetch
\* returned again, and schedules for Serializd each of them that has no
\* diary entry of its key, if the direction pushes to Serializd.
C37_FailedPassLosesNoWork ==
    (pc = "apply_serializd" /\ AfterFirstPassFailedInSerializdFetch) =>
       LET fetched == FetchTraktActivities(DefaultState, traktHistory,
                                           traktRatings).activities
       IN  \A i \in 1..Len(fetched) :
              /\ Key(fetched[i]) \in KeySet(trakt_activities)
              /\ (PushesToSerializd(direction) /\ AbsentFromSerializd(fetched[i]))
                    => Key(fetched[i]) \in KeySet(to_serializd)

\* C37 when the failed pass fetched activities of one key only
C37_SoleKeyFetchedAgain ==
    (pc = "apply_serializd" /\ AfterFirstPassFailedInSerializdFetch
       /\ Cardinality({Key(TraktToActivity(h)) : h \in traktHistory}) = 1) =>
       \A h \in traktHistory :
          Key(TraktToActivity(h)) \in KeySet(trakt_activities)

\* an activity scheduled by the resolution of a conflict, not by the diff
FromConflict(a) ==
    \E i \in 1..Len(conflicts) : a \in {conflicts[i][1], conflicts[i][2]}

\* C38: no duplicate on a platform that holds the watch event already.
\* Leaving aside the activities a resolved conflict sends to the losing
\* side, no diary write is made for an activity whose key a diary entry of
\* Serializd has, and no activity is sent to the Trakt history whose key
\* an entry of that history has, whether or not the fetch of the pass
\* returned that entry.
C38_Step ==
    /\ (pc = "apply_serializd" /\ pc' = "apply_trakt") =>
          \A i \in DiaryCalls' :
             LET a == remoteCalls'[i].activity
             IN  ~FromConflict(a) =>
                    \A e \in serializdDiary :
                       Key(SerializdToActivity(e)) # Key(a)
    /\ (pc = "apply_trakt" /\ pc' = "record") =>
          \A i \in BulkCalls' :
             \A a \in Range(remoteCalls'[i].activities) :
                ~FromConflict(a) =>
                   \A h \in traktHistory : Key(TraktToActivity(h)) # Key(a)
C38_NoDuplicatePush == [][C38_Step]_vars

\* C39: the "excluded" entry of the result of a pass is the number of keys
\* the pass has added to the excluded map.
C39_ExcludedCountReported ==
    pc = "record" =>
       results.excluded =
          Cardinality(ExcludedKeys(state) \ ExcludedKeys(start))

\* what the entry is instead: 0, whatever the pass excluded
C39_ExcludedEntryStaysZero == results.excluded = 0

\* ----------------------------------- a pass with its wrapped fetches
\* sync.py 133, 162: both fetches are decorated with
\* @retry_with_backoff(max_retries=3), max_delay left at its default; the
\* pass is at one of them
FetchPcs == {"fetch_trakt", "fetch_serializd"}

\* what a call of a fetch raises here: a rate limit whose Retry-After is
\* -1 (time.sleep raises on it, unless the attempts are used up), a timeout
\* (retried), an entry that does not validate (not retried)
FetchFailures ==
    {[class |-> "TraktRateLimitError", retry_after |-> -1],
     [class |-> "TimeoutError", retry_after |-> 0],
     [class |-> "ValueError", retry_after |-> 0]}
FailsAsFetch(tr) ==
    \A i \in 1..Len(tr) :
       (tr[i].ev = "call" /\ tr[i].exception # NoException) =>
          [class |-> tr[i].exception.class,
           retry_after |-> tr[i].exception.retry_after] \in FetchFailures

\* sync(): self._fetch_trakt_activities() / _fetch_serializd_activities()
\* is called: the wrapper starts
CallWrappedFetch ==
    /\ pc \in FetchPcs
    /\ CallWrapper
    /\ max_retries' = 3
    /\ max_delay' = 60

\* one turn of the wrapper's loop: the fetch returns or raises (with
\* max_retries = 3 the loop never ends without a return or a raise)
WrappedFetchAttempt ==
    /\ pc \in FetchPcs
    /\ \/ FuncReturns
       \/ FuncRaisesRateLimit
       \/ FuncRaisesRetryable
       \/ FuncRaisesOther
    /\ FailsAsFetch(trace')

\* the wrapper is left
WrapperLeft ==
    /\ outcome.kind \in {"returned", "raised"}
    /\ outcome' = NotCalled
    /\ attempt' = 0
    /\ last_exception' = NoException
    /\ trace' = <<>>
    /\ UNCHANGED <<max_retries, max_delay, caller, compare, command>>

\* sync(): trakt_activities = self._fetch_trakt_activities(), with what the
\* wrapper gave: the activities, or the exception the except branch catches
FetchTraktWrapped ==
    /\ pc = "fetch_trakt"
    /\ WrapperLeft
    /\ IF outcome.kind = "returned"
       THEN LET got == FetchTraktActivities(state, traktHistory, traktRatings)
            IN  /\ trakt_activities' = got.activities
                /\ state' = got.st
                /\ pc' = "fetch_serializd"
                /\ UNCHANGED <<remote, disk, config, serializd_activities,
                               to_serializd, to_trakt, conflicts, results,
                               start, effects, prev, passes, events>>
       ELSE PassFails

FetchSerializdCalledAgain ==
    /\ pc = "fetch_serializd"
    /\ WrapperLeft
    /\ IF outcome.kind = "returned"
       THEN LET got == FetchSerializdActivities(state, serializdDiary)
            IN  /\ serializd_activities' = got.activities
                /\ state' = got.st
                /\ pc' = "diff"
                /\ UNCHANGED <<remote, disk, config, trakt_activities,
                               to_serializd, to_trakt, conflicts, results,
                               start, effects, prev, passes, events>>
       ELSE UNCHANGED engine /\ UNCHANGED ledger
\* sync(): serializd_activities = self._fetch_serializd_activities()
FetchSerializdWrapped ==
    /\ pc = "fetch_serializd"
    /\ WrapperLeft
    /\ IF outcome.kind = "returned"
       THEN LET got == FetchSerializdActivities(state, serializdDiary)
            IN  /\ serializd_activities' = got.activities
                /\ state' = got.st
                /\ pc' = "diff"
                /\ UNCHANGED <<remote, disk, config, trakt_activities,
                               to_serializd, to_trakt, conflicts, results,
                               start, effects, prev, passes, events>>
       ELSE PassFails

\* passes whose wrapped fetches are followed call by call
MaxWrappedPasses == 1

\* engine.sync(direction) is called
StartWrappedPass ==
    /\ passes < MaxWrappedPasses
    /\ StartPass

\* the steps of a pass that has been started
PassStep ==
    \/ CallWrappedFetch
    \/ WrappedFetchAttempt
    \/ FetchTraktWrapped
    \/ FetchSerializdWrapped
    \/ DiffStep
    \/ ConflictStep
    \/ ApplySerializd
    \/ ApplyTrakt
    \/ Record

NextPass ==
    \/ UserWatchesOnTrakt
    \/ UserLogsOnSerializd
    \/ StartWrappedPass
    \/ PassStep

\* a pass runs in one thread, which keeps running once sync() was called;
\* every call of a remote returns or raises
SpecPass == Init /\ [][NextPass]_vars /\ WF_vars(PassStep)

\* C40: every pass that was started ends: it comes to the return of its
\* result or to the raise of SyncError, whatever the direction, the
\* strategy and the failures of the remote calls.
C40_PassTerminates ==
    \A n \in 0..(MaxWrappedPasses - 1) :
       (pc # "idle" /\ passes = n)
          ~> (pc = "idle" /\ passes = n + 1
                /\ prev.outcome \in {"completed", "failed"})

\* a wrapped fetch of a pass has made four calls and raised
W40_FetchGaveUpAfterFourCalls ==
    /\ pc = "fetch_serializd"
    /\ outcome.kind = "raised"
    /\ Len(Calls) = max_retries + 1
    /\ Len(Sleeps) = max_retries

\* no wrapped fetch makes more than max_retries + 1 calls
C40_AttemptsBounded ==
    pc \in FetchPcs => Len(Calls) <= max_retries + 1

====
